---- MODULE Spec2Model ----
(***************************************************************************)
(* AutoSentry agent layer: the adapter contract (base_adapter.py), its     *)
(* four implementations (builtin, langgraph, crewai, autogen) and the      *)
(* batch workflow they run.  One adapter instance is modelled; a call of   *)
(* one of its methods is one action, and the value handed back to the      *)
(* caller (with the executions the call started) is kept in ret until the  *)
(* caller picks it up.                                                     *)
(***************************************************************************)
EXTENDS Naturals, Sequences, FiniteSets, TLC

VARIABLES
    framework,          \* which adapter class the instance is
    available,          \* LANGGRAPH_/CREWAI_/AUTOGEN_AVAILABLE of that module
    agents,             \* BaseAgentAdapter.agents, an insertion-ordered dict
    handles,            \* graphs / crewai_agents / autogen_agents (ordered dict)
    is_initialized,     \* BaseAgentAdapter.is_initialized
    user_proxy,         \* AutoGenAdapter.user_proxy is set
    executor_shutdown,  \* BuiltinAdapter.executor has been shut down
    master,             \* the MasterAgent that owns the adapter
    flight,             \* the process_telemetry coroutines in flight
    ueba,               \* the UEBA scoring service: its histories and model
    scheduling,         \* the SchedulingAgent: its time slots and appointments
    ret                 \* the call in progress / its returned value

vars == <<framework, available, agents, handles, is_initialized, user_proxy,
          executor_shutdown, master, flight, ueba, scheduling, ret>>

----------------------------------------------------------------------------
(* Bounds of the explored inputs.                                          *)

\* longest batch handed to orchestrate_workflow
MaxTasks == 3

\* most third-party failures injected into one call of an alternate variant
MaxFaults == 1

----------------------------------------------------------------------------
(* Data model: base_adapter.py                                             *)

AgentType ==
    {"master", "data_analysis", "diagnosis", "customer_engagement",
     "scheduling", "feedback", "rca_capa"}

Frameworks == {"builtin", "langgraph", "crewai", "autogen"}

\* Python's None, for the Optional fields error / metadata and for handles
None == "None"

\* task kinds BuiltinAgent.execute dispatches on; any other kind is generic
HandledTaskTypes ==
    {"analyze", "diagnose", "predict", "schedule", "engage", "feedback",
     "rca_capa"}

\* the empty dict {} given as output of a failed Result
EmptyOutput == [kind |-> "{}", of |-> ""]

\* an AgentTask; input_data is a dict whose caller-supplied part is either
\* of the shape the handlers read or not (malformed), plus the keys chained
\* into it by orchestrate_workflow; timeout_seconds, retry_count and
\* max_retries have the defaults of the dataclass
AgentTask(task_id, task_type, priority, malformed) ==
    [task_id |-> task_id, task_type |-> task_type, priority |-> priority,
     input_data |-> [malformed |-> malformed, chained |-> {}],
     timeout_seconds |-> 30, retry_count |-> 0, max_retries |-> 3]

AgentResult(task_id, agent_id, success, output, error, metadata) ==
    [task_id |-> task_id, agent_id |-> agent_id, success |-> success,
     output |-> output, error |-> error, metadata |-> metadata]

\* an error text is a sequence of words; None is the empty sequence
NoError == <<>>

\* str(e) of an exception raised by the Python runtime or a third party
StrE == <<"exception message">>

----------------------------------------------------------------------------
(* Insertion-ordered dict keyed by agent_id (Python dict semantics).       *)

Has(d, k) == \E i \in 1..Len(d) : d[i].agent_id = k

IndexOf(d, k) == CHOOSE i \in 1..Len(d) : d[i].agent_id = k

DictGet(d, k) == d[IndexOf(d, k)]

\* a plausible slip: registration appends without looking for the key
DictSetAppend(d, k, v) == Append(d, v)

\* d[k] = v : an existing key keeps its position, a new key goes last
DictSet(d, k, v) ==
    IF Has(d, k) THEN [d EXCEPT ![IndexOf(d, k)] = v] ELSE Append(d, v)

Keys(d) == [i \in 1..Len(d) |-> d[i].agent_id]

KeySet(d) == {d[i].agent_id : i \in 1..Len(d)}

Entry(agent_id, agent_type) == [agent_id |-> agent_id, agent_type |-> agent_type]

----------------------------------------------------------------------------
(* The record of a call.                                                   *)

NoConfig == [agent_mapping |-> {}, chain_outputs |-> TRUE]

NoCall ==
    [op |-> "none", agent_id |-> "", agent_type |-> "", tasks |-> <<>>,
     config |-> NoConfig, tp |-> <<>>, results |-> <<>>, tasks_after |-> <<>>,
     dispatched |-> <<>>, raised |-> FALSE, returned |-> None,
     after_shutdown |-> FALSE, after_create |-> "",
     inputs |-> <<>>, run |-> <<>>]

Dispatch(agent_id, task, via) ==
    [agent_id |-> agent_id, task_id |-> task.task_id, via |-> via]

----------------------------------------------------------------------------
(* execute_task of the four adapters.  Each operator gives the Result and  *)
(* the executions started on the way, in order.                            *)

Ran(result, log) == [result |-> result, log |-> log]

\* a plausible slip: the two ids are passed in the wrong order
NotFoundResultSwapped(agent_id, task) ==
    AgentResult(agent_id, task.task_id, FALSE, EmptyOutput,
                <<"Agent", agent_id, "not found">>, None)

NotFoundResult(agent_id, task) ==
    AgentResult(task.task_id, agent_id, FALSE, EmptyOutput,
                <<"Agent", agent_id, "not found">>, None)

\* the handlers that read their input: a dict of the wrong shape makes them
\* raise (AttributeError / TypeError); _predict and _feedback never look at
\* the input and _generic_task only lists its keys
ReadingTaskTypes == {"analyze", "diagnose", "schedule", "engage", "rca_capa"}

Raises(task) ==
    task.task_type \in ReadingTaskTypes /\ task.input_data.malformed

HandlerOf(task_type) ==
    IF task_type \in HandledTaskTypes THEN "_" \o task_type ELSE "_generic_task"

BuiltinAgent_execute(agent, task) ==
    Ran(IF Raises(task)
        THEN AgentResult(task.task_id, agent.agent_id, FALSE, EmptyOutput,
                         StrE, None)
        ELSE AgentResult(task.task_id, agent.agent_id, TRUE,
                         [kind |-> HandlerOf(task.task_type), of |-> task.task_id],
                         NoError, None),
        <<Dispatch(agent.agent_id, task, "execute")>>)

Builtin_execute_task(agent_id, task) ==
    IF ~Has(agents, agent_id)
    THEN Ran(NotFoundResult(agent_id, task), <<>>)
    ELSE BuiltinAgent_execute(DictGet(agents, agent_id), task)

\* tp is what the third-party runtime does with the call: "ok" or "raise"
LangGraph_execute_task(agent_id, task, tp) ==
    IF ~Has(agents, agent_id)
    THEN Ran(NotFoundResult(agent_id, task), <<>>)
    ELSE Ran(IF tp = "raise"
             THEN AgentResult(task.task_id, agent_id, FALSE, EmptyOutput,
                              StrE, None)
             ELSE AgentResult(task.task_id, agent_id, TRUE,
                              [kind |-> "langgraph", of |-> task.task_id],
                              NoError, "langgraph"),
             <<Dispatch(agent_id, task, "invoke")>>)

CrewAI_fallback_execute(agent_id, task) ==
    Ran(AgentResult(task.task_id, agent_id, TRUE,
                    [kind |-> "crewai_fallback", of |-> task.task_id],
                    NoError, "crewai_fallback"),
        <<Dispatch(agent_id, task, "fallback")>>)

CrewAI_execute_task(agent_id, task, tp) ==
    IF ~Has(agents, agent_id)
    THEN Ran(NotFoundResult(agent_id, task), <<>>)
    ELSE IF ~available
    THEN CrewAI_fallback_execute(agent_id, task)
    ELSE IF tp = "raise"
    THEN Ran(CrewAI_fallback_execute(agent_id, task).result,
             <<Dispatch(agent_id, task, "kickoff")>>
                 \o CrewAI_fallback_execute(agent_id, task).log)
    ELSE Ran(AgentResult(task.task_id, agent_id, TRUE,
                         [kind |-> "crewai", of |-> task.task_id],
                         NoError, "crewai"),
             <<Dispatch(agent_id, task, "kickoff")>>)

AutoGen_fallback_execute(agent_id, task) ==
    Ran(AgentResult(task.task_id, agent_id, TRUE,
                    [kind |-> "autogen_fallback", of |-> task.task_id],
                    NoError, "autogen_fallback"),
        <<Dispatch(agent_id, task, "fallback")>>)

\* a plausible slip: the lookup is done as in _fallback_execute, with
\* self.agents.get(agent_id, {}), so that a missing worker is not noticed
AutoGen_execute_taskNoLookup(agent_id, task, tp) ==
    IF ~available \/ ~user_proxy
    THEN AutoGen_fallback_execute(agent_id, task)
    ELSE IF tp = "raise"
    THEN Ran(AutoGen_fallback_execute(agent_id, task).result,
             <<Dispatch(agent_id, task, "initiate_chat")>>
                 \o AutoGen_fallback_execute(agent_id, task).log)
    ELSE Ran(AgentResult(task.task_id, agent_id, TRUE,
                         [kind |-> "autogen", of |-> task.task_id],
                         NoError, "autogen"),
             <<Dispatch(agent_id, task, "initiate_chat")>>)

AutoGen_execute_task(agent_id, task, tp) ==
    IF ~Has(agents, agent_id)
    THEN Ran(NotFoundResult(agent_id, task), <<>>)
    ELSE IF ~available \/ ~user_proxy
    THEN AutoGen_fallback_execute(agent_id, task)
    ELSE IF tp = "raise"
    THEN Ran(AutoGen_fallback_execute(agent_id, task).result,
             <<Dispatch(agent_id, task, "initiate_chat")>>
                 \o AutoGen_fallback_execute(agent_id, task).log)
    ELSE Ran(AgentResult(task.task_id, agent_id, TRUE,
                         [kind |-> "autogen", of |-> task.task_id],
                         NoError, "autogen"),
             <<Dispatch(agent_id, task, "initiate_chat")>>)

\* self.adapter.execute_task of whichever adapter the instance is
execute_task(agent_id, task, tp) ==
    CASE framework = "builtin"   -> Builtin_execute_task(agent_id, task)
      [] framework = "langgraph" -> LangGraph_execute_task(agent_id, task, tp)
      [] framework = "crewai"    -> CrewAI_execute_task(agent_id, task, tp)
      [] framework = "autogen"   -> AutoGen_execute_task(agent_id, task, tp)

\* does the call reach the third-party runtime, so that tp is an input to it
ReachesThirdParty(agent_id) ==
    /\ framework # "builtin"
    /\ Has(agents, agent_id)
    /\ available
    /\ framework = "autogen" => user_proxy

----------------------------------------------------------------------------
(* orchestrate_workflow: the priority sort and the routing of each adapter *)

\* the positions of seq whose priority is at most p form a prefix of length
RECURSIVE UpTo(_, _, _)
UpTo(tasks, order, p) ==
    IF order = <<>> \/ tasks[Head(order)].priority > p THEN 0
    ELSE 1 + UpTo(tasks, Tail(order), p)

InsertAt(order, n, i) == SubSeq(order, 1, n) \o <<i>> \o SubSeq(order, n + 1, Len(order))

\* a plausible slip: the sort puts a task before the tasks of equal priority
RECURSIVE sortedUnstable(_, _)
sortedUnstable(tasks, n) ==
    IF n = 0 THEN <<>>
    ELSE LET before == sortedUnstable(tasks, n - 1)
         IN  IF tasks[n].priority = 0 THEN Append(before, n)
             ELSE InsertAt(before, UpTo(tasks, before, tasks[n].priority - 1), n)

\* sorted(tasks, key=lambda t: t.priority) over the first n tasks, as the
\* positions of the tasks in dispatch order: a stable ascending sort, each
\* task going behind the tasks of lower or equal priority before it
RECURSIVE sorted(_, _)
sorted(tasks, n) ==
    IF n = 0 THEN <<>>
    ELSE LET before == sorted(tasks, n - 1)
         IN  InsertAt(before, UpTo(tasks, before, tasks[n].priority), n)

\* the agent_id of the first entry of the dict with the given type, or None
FirstOfType(d, agent_type) ==
    IF \E i \in 1..Len(d) : d[i].agent_type = agent_type
    THEN d[CHOOSE i \in 1..Len(d) :
                /\ d[i].agent_type = agent_type
                /\ \A j \in 1..(i - 1) : d[j].agent_type # agent_type].agent_id
    ELSE None

\* list(d.keys())[0] if d else <otherwise>
FirstKeyOr(d, otherwise) == IF d # <<>> THEN d[1].agent_id ELSE otherwise

\* BuiltinAdapter._select_agent_for_task.task_agent_mapping
task_agent_mapping(task_type) ==
    CASE task_type = "analyze"  -> "data_analysis"
      [] task_type = "diagnose" -> "diagnosis"
      [] task_type = "predict"  -> "data_analysis"
      [] task_type = "schedule" -> "scheduling"
      [] task_type = "engage"   -> "customer_engagement"
      [] task_type = "feedback" -> "feedback"
      [] task_type = "rca_capa" -> "rca_capa"
      [] OTHER -> None

\* a plausible slip: the master agent is preferred to the matching worker
Builtin_select_agent_for_taskMasterFirst(task) ==
    IF FirstOfType(agents, "master") # None
    THEN FirstOfType(agents, "master")
    ELSE FirstOfType(agents, task_agent_mapping(task.task_type))

Builtin_select_agent_for_task(task) ==
    IF FirstOfType(agents, task_agent_mapping(task.task_type)) # None
    THEN FirstOfType(agents, task_agent_mapping(task.task_type))
    ELSE FirstOfType(agents, "master")

\* LangGraphAdapter._find_agent_for_task
LangGraph_task_type_mapping(task_type) ==
    CASE task_type = "analyze"  -> "data_analysis"
      [] task_type = "diagnose" -> "diagnosis"
      [] task_type = "engage"   -> "customer_engagement"
      [] task_type = "schedule" -> "scheduling"
      [] OTHER -> None

LangGraph_find_agent_for_task(task) ==
    IF FirstOfType(agents, LangGraph_task_type_mapping(task.task_type)) # None
    THEN FirstOfType(agents, LangGraph_task_type_mapping(task.task_type))
    ELSE FirstKeyOr(agents, None)

\* AutoGenAdapter._select_agent_for_task
AutoGen_task_type_mapping(task_type) ==
    CASE task_type = "analyze"  -> "data_analysis"
      [] task_type = "diagnose" -> "diagnosis"
      [] task_type = "engage"   -> "customer_engagement"
      [] task_type = "schedule" -> "scheduling"
      [] task_type = "feedback" -> "feedback"
      [] task_type = "rca_capa" -> "rca_capa"
      [] OTHER -> None

AutoGen_select_agent_for_task(task) ==
    IF FirstOfType(agents, AutoGen_task_type_mapping(task.task_type)) # None
    THEN FirstOfType(agents, AutoGen_task_type_mapping(task.task_type))
    ELSE FirstKeyOr(agents, None)

\* CrewAIAdapter.create_agent.agent_configs[agent_type]["role"]
RoleOf(agent_type) ==
    CASE agent_type = "master"              -> "Master Orchestrator"
      [] agent_type = "data_analysis"       -> "Data Analysis Specialist"
      [] agent_type = "diagnosis"           -> "Vehicle Diagnostics Expert"
      [] agent_type = "customer_engagement" -> "Customer Success Manager"
      [] agent_type = "scheduling"          -> "Service Scheduling Coordinator"
      [] agent_type = "feedback"            -> "Customer Feedback Analyst"
      [] agent_type = "rca_capa"            -> "Quality Engineer"

\* task_role_mapping.get(task_type, "").lower() in agent.role.lower(): the
\* agent types whose role contains the keyword of the task type; the empty
\* keyword of an unmapped task type is contained in every role
RoleMatches(task_type, agent_type) ==
    CASE task_type = "analyze"  -> agent_type = "data_analysis"
      [] task_type = "diagnose" -> agent_type = "diagnosis"
      [] task_type = "engage"   -> agent_type \in {"customer_engagement", "feedback"}
      [] task_type = "schedule" -> agent_type = "scheduling"
      [] task_type = "feedback" -> agent_type = "feedback"
      [] task_type = "rca_capa" -> agent_type = "rca_capa"
      [] OTHER -> TRUE

\* CrewAIAdapter._select_agent_for_task: the chosen entry of crewai_agents
\* (called only when crewai_agents is not empty)
CrewAI_select_agent_for_task(task) ==
    IF \E i \in 1..Len(handles) : RoleMatches(task.task_type, handles[i].agent_type)
    THEN handles[CHOOSE i \in 1..Len(handles) :
                    /\ RoleMatches(task.task_type, handles[i].agent_type)
                    /\ \A j \in 1..(i - 1) :
                            ~RoleMatches(task.task_type, handles[j].agent_type)]
    ELSE handles[1]

----------------------------------------------------------------------------
(* orchestrate_workflow of the four adapters.  A loop state holds the      *)
(* results appended so far, the executions started so far and the callers' *)
(* task objects (input order) as mutated so far.                           *)

Loop0(tasks) == [results |-> <<>>, log |-> <<>>, tasks |-> tasks]

NoAgentResult(task, text) ==
    AgentResult(task.task_id, "none", FALSE, EmptyOutput, <<text>>, None)

\* workflow_config.get("agent_mapping", {}).get(task_type); the mapping is a
\* set of [task_type, agent_id] entries with distinct task types
MappingGet(mapping, task_type) ==
    IF \E e \in mapping : e.task_type = task_type
    THEN (CHOOSE e \in mapping : e.task_type = task_type).agent_id
    ELSE None

\* input_data[key] = value
Put(input_data, key, value) ==
    [input_data EXCEPT !.chained =
        {e \in @ : e.key # key} \cup {[key |-> key, value |-> value]}]

\* a plausible slip: the output is written to every task of the batch, the
\* task that produced it included
ChainToAll(tasks, task, output) ==
    [j \in 1..Len(tasks) |->
        [tasks[j] EXCEPT !.input_data =
            [@ EXCEPT !.chained =
                {e \in @ : e.key # task.task_type \o "_result"}
                    \cup {[key |-> task.task_type \o "_result", value |-> output]}]]]

\* for next_task in sorted_tasks: if next_task.task_id != task.task_id:
\*     next_task.input_data[f"{task.task_type}_result"] = result.output
Chain(tasks, task, output) ==
    [j \in 1..Len(tasks) |->
        IF tasks[j].task_id # task.task_id
        THEN [tasks[j] EXCEPT !.input_data =
                Put(@, task.task_type \o "_result", output)]
        ELSE tasks[j]]

\* one iteration of the builtin loop, for the task at input position i
Builtin_step(acc, i, config) ==
    LET task == acc.tasks[i]
        mapped == MappingGet(config.agent_mapping, task.task_type)
        agent_id == IF mapped # None THEN mapped
                    ELSE Builtin_select_agent_for_task(task)
        run == Builtin_execute_task(agent_id, task)
    IN  IF agent_id # None
        THEN [results |-> Append(acc.results, run.result),
              log |-> acc.log \o run.log,
              tasks |-> IF run.result.success /\ config.chain_outputs
                        THEN Chain(acc.tasks, task, run.result.output)
                        ELSE acc.tasks]
        ELSE [acc EXCEPT !.results =
                Append(@, NoAgentResult(task, "No suitable agent found for task"))]

\* a plausible slip: the loop is left at the first failed Result
RECURSIVE Builtin_loopStopsAtFailure(_, _, _)
Builtin_loopStopsAtFailure(acc, order, config) ==
    IF order = <<>> \/ (acc.results # <<>> /\ ~acc.results[Len(acc.results)].success)
    THEN acc
    ELSE Builtin_loopStopsAtFailure(Builtin_step(acc, Head(order), config),
                                    Tail(order), config)

RECURSIVE Builtin_loop(_, _, _)
Builtin_loop(acc, order, config) ==
    IF order = <<>> THEN acc
    ELSE Builtin_loop(Builtin_step(acc, Head(order), config), Tail(order), config)

Builtin_orchestrate_workflow(tasks, config) ==
    Builtin_loop(Loop0(tasks), sorted(tasks, Len(tasks)), config)

\* LangGraphAdapter.orchestrate_workflow; tp[i] is the third-party outcome
\* for the task at input position i
\* a plausible slip: a task without a worker is run by the fallback worker
\* "default", as _fallback_orchestrate of the other adapters does
LangGraph_stepDefault(acc, i, tp) ==
    LET task == acc.tasks[i]
        agent_id == LangGraph_find_agent_for_task(task)
        run == LangGraph_execute_task(agent_id, task, tp[i])
    IN  IF agent_id # None
        THEN [acc EXCEPT !.results = Append(@, run.result), !.log = @ \o run.log]
        ELSE [acc EXCEPT !.results =
                Append(@, AgentResult(task.task_id, "default", TRUE,
                                      [kind |-> "langgraph_fallback", of |-> task.task_id],
                                      NoError, "langgraph_fallback"))]

LangGraph_step(acc, i, tp) ==
    LET task == acc.tasks[i]
        agent_id == LangGraph_find_agent_for_task(task)
        run == LangGraph_execute_task(agent_id, task, tp[i])
    IN  IF agent_id # None
        THEN [acc EXCEPT !.results = Append(@, run.result), !.log = @ \o run.log]
        ELSE [acc EXCEPT !.results =
                Append(@, NoAgentResult(task, "No suitable agent found"))]

RECURSIVE LangGraph_loop(_, _, _)
LangGraph_loop(acc, order, tp) ==
    IF order = <<>> THEN acc
    ELSE LangGraph_loop(LangGraph_step(acc, Head(order), tp), Tail(order), tp)

LangGraph_orchestrate_workflow(tasks, tp) ==
    LangGraph_loop(Loop0(tasks), sorted(tasks, Len(tasks)), tp)

\* CrewAIAdapter._fallback_orchestrate
RECURSIVE CrewAI_fallback_loop(_, _)
CrewAI_fallback_loop(acc, order) ==
    IF order = <<>> THEN acc
    ELSE LET run == CrewAI_fallback_execute(FirstKeyOr(agents, "default"),
                                            acc.tasks[Head(order)])
         IN  CrewAI_fallback_loop(
                [acc EXCEPT !.results = Append(@, run.result), !.log = @ \o run.log],
                Tail(order))

CrewAI_fallback_orchestrate(tasks) ==
    CrewAI_fallback_loop(Loop0(tasks), sorted(tasks, Len(tasks)))

\* the second loop of CrewAIAdapter.orchestrate_workflow.  tp[i] = "raise" is
\* crew.kickoff() raising (caught per task), "ctor_raise" is Crew(...)
\* raising, which leaves the loop for the outer except: the results so far
\* are dropped and the whole batch is run by _fallback_orchestrate
\* a plausible slip: the outer except keeps the results appended so far
RECURSIVE CrewAI_loopKeepsResults(_, _, _)
CrewAI_loopKeepsResults(acc, order, tp) ==
    IF order = <<>> THEN acc
    ELSE LET task == acc.tasks[Head(order)]
             agent == CrewAI_select_agent_for_task(task)
             role == RoleOf(agent.agent_type)
         IN  IF tp[Head(order)] = "ctor_raise"
             THEN [CrewAI_fallback_orchestrate(acc.tasks) EXCEPT
                        !.log = acc.log \o @, !.results = acc.results \o @]
             ELSE CrewAI_loopKeepsResults(
                    [acc EXCEPT
                        !.results = Append(@,
                            IF tp[Head(order)] = "raise"
                            THEN AgentResult(task.task_id, role, FALSE, EmptyOutput,
                                             StrE, None)
                            ELSE AgentResult(task.task_id, role, TRUE,
                                             [kind |-> "crewai", of |-> task.task_id],
                                             NoError, "crewai")),
                        !.log = Append(@, Dispatch(role, task, "kickoff"))],
                    Tail(order), tp)

RECURSIVE CrewAI_loop(_, _, _)
CrewAI_loop(acc, order, tp) ==
    IF order = <<>> THEN acc
    ELSE LET task == acc.tasks[Head(order)]
             agent == CrewAI_select_agent_for_task(task)
             role == RoleOf(agent.agent_type)
         IN  IF tp[Head(order)] = "ctor_raise"
             THEN [CrewAI_fallback_orchestrate(acc.tasks) EXCEPT !.log = acc.log \o @]
             ELSE CrewAI_loop(
                    [acc EXCEPT
                        !.results = Append(@,
                            IF tp[Head(order)] = "raise"
                            THEN AgentResult(task.task_id, role, FALSE, EmptyOutput,
                                             StrE, None)
                            ELSE AgentResult(task.task_id, role, TRUE,
                                             [kind |-> "crewai", of |-> task.task_id],
                                             NoError, "crewai")),
                        !.log = Append(@, Dispatch(role, task, "kickoff"))],
                    Tail(order), tp)

CrewAI_orchestrate_workflow(tasks, tp) ==
    IF ~available \/ handles = <<>>
    THEN CrewAI_fallback_orchestrate(tasks)
    ELSE CrewAI_loop(Loop0(tasks), sorted(tasks, Len(tasks)), tp)

\* AutoGenAdapter._fallback_orchestrate
RECURSIVE AutoGen_fallback_loop(_, _)
AutoGen_fallback_loop(acc, order) ==
    IF order = <<>> THEN acc
    ELSE LET run == AutoGen_fallback_execute(FirstKeyOr(agents, "default"),
                                             acc.tasks[Head(order)])
         IN  AutoGen_fallback_loop(
                [acc EXCEPT !.results = Append(@, run.result), !.log = @ \o run.log],
                Tail(order))

AutoGen_fallback_orchestrate(tasks) ==
    AutoGen_fallback_loop(Loop0(tasks), sorted(tasks, Len(tasks)))

AutoGen_step(acc, i, tp) ==
    LET task == acc.tasks[i]
        agent_id == AutoGen_select_agent_for_task(task)
        run == AutoGen_execute_task(agent_id, task, tp[i])
    IN  IF agent_id # None
        THEN [acc EXCEPT !.results = Append(@, run.result), !.log = @ \o run.log]
        ELSE [acc EXCEPT !.results =
                Append(@, NoAgentResult(task, "No suitable agent found"))]

RECURSIVE AutoGen_loop(_, _, _)
AutoGen_loop(acc, order, tp) ==
    IF order = <<>> THEN acc
    ELSE AutoGen_loop(AutoGen_step(acc, Head(order), tp), Tail(order), tp)

AutoGen_orchestrate_workflow(tasks, tp) ==
    IF ~available \/ handles = <<>>
    THEN AutoGen_fallback_orchestrate(tasks)
    ELSE AutoGen_loop(Loop0(tasks), sorted(tasks, Len(tasks)), tp)

orchestrate_workflow(tasks, config, tp) ==
    CASE framework = "builtin"   -> Builtin_orchestrate_workflow(tasks, config)
      [] framework = "langgraph" -> LangGraph_orchestrate_workflow(tasks, tp)
      [] framework = "crewai"    -> CrewAI_orchestrate_workflow(tasks, tp)
      [] framework = "autogen"   -> AutoGen_orchestrate_workflow(tasks, tp)

----------------------------------------------------------------------------
(* Lifecycle: initialize, create_agent, shutdown.                          *)

\* the adapter state a method works on
Adapter ==
    [agents |-> agents, handles |-> handles, is_initialized |-> is_initialized,
     user_proxy |-> user_proxy, executor_shutdown |-> executor_shutdown]

\* initialize(): the state after it and the bool it returns.  tp = "raise"
\* is the UserProxyAgent constructor raising (autogen only)
initialize(a, tp) ==
    CASE framework = "builtin" ->
            [state |-> [a EXCEPT !.is_initialized = TRUE], returned |-> "True"]
      [] framework \in {"langgraph", "crewai"} ->
            IF ~available
            THEN [state |-> a, returned |-> "False"]
            ELSE [state |-> [a EXCEPT !.is_initialized = TRUE], returned |-> "True"]
      [] framework = "autogen" ->
            IF ~available \/ tp = "raise"
            THEN [state |-> a, returned |-> "False"]
            ELSE [state |-> [a EXCEPT !.is_initialized = TRUE, !.user_proxy = TRUE],
                  returned |-> "True"]

\* create_agent(agent_type, agent_id): the state after it, what it returns
\* and whether it raises.  tp = "raise" is the third-party constructor
\* raising: StateGraph (not caught), Agent / AssistantAgent (caught)
create_agent(a, agent_type, agent_id, tp) ==
    LET registered ==
            [a EXCEPT !.agents = DictSet(a.agents, agent_id, Entry(agent_id, agent_type)),
                      !.handles = DictSet(a.handles, agent_id, Entry(agent_id, agent_type))]
    IN  CASE framework = "builtin" ->
                [state |-> [a EXCEPT !.agents =
                                DictSet(a.agents, agent_id, Entry(agent_id, agent_type))],
                 returned |-> "agent", raised |-> FALSE]
          [] framework = "langgraph" ->
                IF ~available
                THEN [state |-> a, returned |-> None, raised |-> FALSE]
                ELSE IF tp = "raise"
                THEN [state |-> a, returned |-> None, raised |-> TRUE]
                ELSE [state |-> registered, returned |-> "agent", raised |-> FALSE]
          [] framework \in {"crewai", "autogen"} ->
                IF ~available \/ tp = "raise"
                THEN [state |-> a, returned |-> None, raised |-> FALSE]
                ELSE [state |-> registered, returned |-> "agent", raised |-> FALSE]

\* a plausible slip: shutdown toggles the flag instead of clearing it
shutdownToggles(a) ==
    [a EXCEPT !.agents = <<>>, !.is_initialized = ~a.is_initialized,
              !.executor_shutdown = (framework = "builtin") \/ a.executor_shutdown]

\* shutdown(): agents.clear(), is_initialized = False, and for the builtin
\* adapter executor.shutdown(wait=True); the handle dicts are left alone
shutdown(a) ==
    [a EXCEPT !.agents = <<>>, !.is_initialized = FALSE,
              !.executor_shutdown = (framework = "builtin") \/ a.executor_shutdown]

SetAdapter(a) ==
    /\ agents' = a.agents
    /\ handles' = a.handles
    /\ is_initialized' = a.is_initialized
    /\ user_proxy' = a.user_proxy
    /\ executor_shutdown' = a.executor_shutdown

Idle == ret.op = "none"

\* the call being made directly follows a shutdown
FollowsShutdown == ret.after_shutdown

\* the worker_id registered by the create_agent call the call being made
\* directly follows ("" when it follows another call or none)
FollowsCreate == ret.after_create

Call(op) ==
    [NoCall EXCEPT !.op = op, !.after_shutdown = FollowsShutdown,
                   !.after_create = FollowsCreate]

\* which third-party outcomes are inputs of initialize / create_agent
LifecycleOutcomes(op) ==
    IF available /\ (framework = "autogen" \/ (op = "create_agent" /\ framework # "builtin"))
    THEN {"ok", "raise"} ELSE {"ok"}

Initialize(tp) ==
    /\ Idle
    /\ tp \in LifecycleOutcomes("initialize")
    /\ SetAdapter(initialize(Adapter, tp).state)
    /\ ret' = [Call("initialize") EXCEPT !.tp = <<tp>>,
                                         !.returned = initialize(Adapter, tp).returned]
    /\ UNCHANGED <<framework, available, master, flight, ueba, scheduling>>

CreateAgent(agent_type, agent_id, tp) ==
    /\ Idle
    /\ tp \in LifecycleOutcomes("create_agent")
    /\ SetAdapter(create_agent(Adapter, agent_type, agent_id, tp).state)
    /\ ret' = [Call("create_agent") EXCEPT
                    !.agent_id = agent_id, !.agent_type = agent_type, !.tp = <<tp>>,
                    !.returned = create_agent(Adapter, agent_type, agent_id, tp).returned,
                    !.raised = create_agent(Adapter, agent_type, agent_id, tp).raised]
    /\ UNCHANGED <<framework, available, master, flight, ueba, scheduling>>

Shutdown ==
    /\ Idle
    /\ SetAdapter(shutdown(Adapter))
    /\ ret' = Call("shutdown")
    /\ UNCHANGED <<framework, available, master, flight, ueba, scheduling>>

\* a plausible slip: a worker whose execution failed is taken off the
\* registry
ExecuteTaskEvicts(agent_id, task, tp) ==
    /\ Idle
    /\ tp \in (IF ReachesThirdParty(agent_id) THEN {"ok", "raise"} ELSE {"ok"})
    /\ \E out \in {execute_task(agent_id, task, tp)} :
            /\ ret' = [Call("execute_task") EXCEPT
                            !.agent_id = agent_id, !.tasks = <<task>>, !.tp = <<tp>>,
                            !.results = <<out.result>>, !.tasks_after = <<task>>,
                            !.dispatched = out.log]
            /\ agents' = IF out.result.success THEN agents
                         ELSE SelectSeq(agents, LAMBDA e : e.agent_id # agent_id)
    /\ UNCHANGED <<framework, available, handles, is_initialized,
                   user_proxy, executor_shutdown, master, flight, ueba, scheduling>>

\* tp = "slow" is a worker (a builtin handler, a third-party call) that
\* takes longer than task.timeout_seconds and then returns: nothing in the
\* adapters measures the time, the call waits and hands the Result back
ExecuteTask(agent_id, task, tp) ==
    /\ Idle
    /\ tp \in (IF ReachesThirdParty(agent_id) THEN {"ok", "raise", "slow"}
               ELSE IF framework = "builtin" /\ Has(agents, agent_id)
               THEN {"ok", "slow"} ELSE {"ok"})
    /\ \E out \in {execute_task(agent_id, task, tp)} :
            ret' = [Call("execute_task") EXCEPT
                        !.agent_id = agent_id, !.tasks = <<task>>, !.tp = <<tp>>,
                        !.results = <<out.result>>, !.tasks_after = <<task>>,
                        !.dispatched = out.log]
    /\ UNCHANGED <<framework, available, agents, handles, is_initialized,
                   user_proxy, executor_shutdown, master, flight, ueba, scheduling>>

\* the third-party outcomes a batch can meet: one per task, at most
\* MaxFaults of them failures; the builtin adapter and an adapter with no
\* handle (which runs the fallback loop) call no third party
Faults(tp) == Cardinality({i \in DOMAIN tp : tp[i] # "ok"})

BatchOutcomes(n) ==
    IF framework = "builtin" \/ ~available \/ handles = <<>>
    THEN {[i \in 1..n |-> "ok"]}
    ELSE {tp \in [1..n -> IF framework = "crewai"
                          THEN {"ok", "raise", "ctor_raise"}
                          ELSE {"ok", "raise"}] : Faults(tp) <= MaxFaults}

OrchestrateWorkflow(tasks, config, tp) ==
    /\ Idle
    /\ tp \in BatchOutcomes(Len(tasks))
    /\ framework # "builtin" => config = NoConfig
    /\ \E out \in {orchestrate_workflow(tasks, config, tp)} :
            ret' = [Call("orchestrate_workflow") EXCEPT
                        !.tasks = tasks, !.config = config, !.tp = tp,
                        !.results = out.results, !.tasks_after = out.tasks,
                        !.dispatched = out.log]
    /\ UNCHANGED <<framework, available, agents, handles, is_initialized,
                   user_proxy, executor_shutdown, master, flight, ueba, scheduling>>

\* the caller takes the returned value; the next call can be made
Return ==
    /\ ~Idle
    /\ ret' = [NoCall EXCEPT
                    !.after_shutdown = (ret.op = "shutdown"),
                    !.after_create = IF ret.op = "create_agent" THEN ret.agent_id
                                     ELSE ""]
    /\ UNCHANGED <<framework, available, agents, handles, is_initialized,
                   user_proxy, executor_shutdown, master, flight, ueba, scheduling>>

----------------------------------------------------------------------------
(* MasterAgent: master_agent.py                                            *)

\* a Python dict with string keys is a function on its keys; {} is EmptyDict
EmptyDict == [k \in {} |-> None]

\* d.get(key, default)
Get(d, key, default) == IF key \in DOMAIN d THEN d[key] ELSE default

\* MasterAgent.__init__: no adapter yet, no worker roster, an open HTTP client
NoMaster == [adapter |-> FALSE, worker_agents |-> EmptyDict, http_closed |-> FALSE]

\* d[key] = value
DictPut(d, key, value) ==
    [k \in DOMAIN d \cup {key} |-> IF k = key THEN value ELSE d[k]]

\* MasterAgent._create_worker_agents.worker_configs
worker_configs ==
    <<[agent_type |-> "data_analysis",       agent_id |-> "data-analysis-001"],
      [agent_type |-> "diagnosis",           agent_id |-> "diagnosis-001"],
      [agent_type |-> "customer_engagement", agent_id |-> "customer-engagement-001"],
      [agent_type |-> "scheduling",          agent_id |-> "scheduling-001"],
      [agent_type |-> "feedback",            agent_id |-> "feedback-001"],
      [agent_type |-> "rca_capa",            agent_id |-> "rca-capa-001"]>>

\* the adapter a MasterAgent.initialize constructs
NewAdapter ==
    [agents |-> <<>>, handles |-> <<>>, is_initialized |-> FALSE,
     user_proxy |-> FALSE, executor_shutdown |-> FALSE]

\* for agent_type, agent_id in worker_configs: create_agent, then record the
\* id under the type, whether or not create_agent registered anything; an
\* exception of create_agent ends the loop.  tp is the third-party outcome
\* of each create_agent, in the order of the configs
RECURSIVE create_worker_agents(_, _, _)
create_worker_agents(st, configs, tp) ==
    IF configs = <<>> THEN st
    ELSE LET c == create_agent(st.a, Head(configs).agent_type,
                               Head(configs).agent_id, Head(tp))
         IN  IF c.raised THEN [st EXCEPT !.raised = TRUE]
             ELSE create_worker_agents(
                    [a |-> c.state,
                     worker_agents |-> DictPut(st.worker_agents,
                                               Head(configs).agent_type,
                                               Head(configs).agent_id),
                     raised |-> FALSE],
                    Tail(configs), Tail(tp))

\* MasterAgent.initialize: a new adapter of the configured framework, its
\* initialize(), and only if that returned True the worker roster
Master_initialize(m, tp_init, tp_create) ==
    LET i == initialize(NewAdapter, tp_init)
        r == create_worker_agents(
                [a |-> i.state, worker_agents |-> m.worker_agents, raised |-> FALSE],
                worker_configs, tp_create)
    IN  IF i.returned = "False"
        THEN [master |-> [m EXCEPT !.adapter = TRUE], a |-> i.state,
              returned |-> "False", raised |-> FALSE]
        ELSE [master |-> [m EXCEPT !.adapter = TRUE,
                                   !.worker_agents = r.worker_agents],
              a |-> r.a,
              returned |-> IF r.raised THEN None ELSE "True",
              raised |-> r.raised]

\* MasterAgent.shutdown: adapter.shutdown() if there is an adapter, then
\* http_client.aclose()
Master_shutdown(m, a) ==
    [master |-> [m EXCEPT !.http_closed = TRUE],
     a |-> IF m.adapter THEN shutdown(a) ELSE a]

MasterInitialize(tp_init, tp_create) ==
    /\ Idle
    /\ tp_init \in LifecycleOutcomes("initialize")
    /\ Len(tp_create) = Len(worker_configs)
    /\ \A i \in DOMAIN tp_create : tp_create[i] \in LifecycleOutcomes("create_agent")
    /\ \E out \in {Master_initialize(master, tp_init, tp_create)} :
            /\ SetAdapter(out.a)
            /\ master' = out.master
            /\ ret' = [Call("master_initialize") EXCEPT
                            !.tp = <<tp_init, tp_create>>,
                            !.returned = out.returned, !.raised = out.raised]
    /\ UNCHANGED <<framework, available, flight, ueba, scheduling>>

MasterShutdown ==
    /\ Idle
    /\ SetAdapter(Master_shutdown(master, Adapter).a)
    /\ master' = Master_shutdown(master, Adapter).master
    /\ ret' = Call("master_shutdown")
    /\ UNCHANGED <<framework, available, flight, ueba, scheduling>>

----------------------------------------------------------------------------
(* The collaborators and the worker outputs the MasterAgent reads.         *)

\* what a collaborator call hands back: the dict, and whether an exception
\* left the call
Answer(value) == [value |-> value, raised |-> FALSE]

\* the request itself raises: service unreachable, timeout, client closed
RequestRaises(m, response) ==
    m.http_closed \/ response.status \in {"unreachable", "timeout"}

\* a plausible slip: only the status is looked at, a raising request is not
\* caught
report_to_uebaUncaught(m, response) ==
    IF RequestRaises(m, response)
    THEN [value |-> EmptyDict, raised |-> TRUE]
    ELSE IF response.status = "200" THEN Answer(response.body)
    ELSE Answer([alert |-> FALSE, score |-> 0])

\* _report_to_ueba: the JSON body of a 200 answer; the neutral answer for
\* any other status; the neutral answer plus the exception text when the
\* request raises
report_to_ueba(m, response) ==
    IF RequestRaises(m, response)
    THEN Answer([alert |-> FALSE, score |-> 0, error |-> StrE])
    ELSE IF response.status = "200" THEN Answer(response.body)
    ELSE Answer([alert |-> FALSE, score |-> 0])

\* a plausible slip: a timeout of the request is not caught
get_ml_predictionTimeoutRaises(m, response) ==
    IF response.status = "timeout" THEN [value |-> EmptyDict, raised |-> TRUE]
    ELSE IF m.http_closed \/ response.status = "unreachable"
    THEN Answer([error |-> StrE])
    ELSE IF response.status = "200" THEN Answer(response.body)
    ELSE Answer(EmptyDict)

\* a plausible slip: the body of an error answer is passed on
get_ml_predictionKeepsBody(m, response) ==
    IF RequestRaises(m, response)
    THEN Answer([error |-> StrE])
    ELSE Answer(response.body)

\* _get_ml_prediction: the JSON body of a 200 answer; {} for any other
\* status; {"error": str(e)} when the request raises
get_ml_prediction(m, response) ==
    IF RequestRaises(m, response)
    THEN Answer([error |-> StrE])
    ELSE IF response.status = "200" THEN Answer(response.body)
    ELSE Answer(EmptyDict)

\* BuiltinAgent._analyze; readings are in hundredths (engine_temp 118.5 is
\* 11850, brake_pad_wear_avg 0.08 is 8)
analyze(data) ==
    LET telemetry == Get(data, "telemetry", EmptyDict)
        health_indicators ==
            [engine  |-> IF Get(telemetry, "engine_temp", 9000) < 10000
                         THEN "good" ELSE "warning",
             oil     |-> IF Get(telemetry, "oil_pressure", 4000) > 3000
                         THEN "good" ELSE "warning",
             battery |-> IF Get(telemetry, "battery_voltage", 1200) > 1150
                         THEN "good" ELSE "warning",
             brakes  |-> IF Get(telemetry, "brake_pad_wear_avg", 50) > 20
                         THEN "good" ELSE "warning"]
        warnings == {k \in DOMAIN health_indicators : health_indicators[k] = "warning"}
    IN  [vehicle_id |-> Get(telemetry, "vehicle_id", "unknown"),
         health_indicators |-> health_indicators,
         overall_status |-> IF warnings # {} THEN "needs_attention" ELSE "healthy",
         recommendations |-> warnings]

\* a plausible slip: the battery check comes after the brake check, so that
\* a low battery leaves the severity at "medium"
diagnoseBatteryLast(data) ==
    LET analysis == Get(data, "analysis", EmptyDict)
        health == Get(analysis, "health_indicators", EmptyDict)
        Warn(k) == Get(health, k, None) = "warning"
        found == (IF Warn("engine") THEN <<"Engine temperature elevated">> ELSE <<>>)
                 \o (IF Warn("oil") THEN <<"Oil pressure below threshold">> ELSE <<>>)
                 \o (IF Warn("brakes") THEN <<"Brake pads worn">> ELSE <<>>)
                 \o (IF Warn("battery") THEN <<"Battery voltage low">> ELSE <<>>)
    IN  [vehicle_id |-> Get(analysis, "vehicle_id", "unknown"),
         findings |-> IF found = <<>> THEN <<"No issues detected">> ELSE found,
         severity |-> IF Warn("battery") THEN "medium"
                      ELSE IF Warn("brakes") \/ Warn("oil") \/ Warn("engine") THEN "high"
                      ELSE "low"]

\* BuiltinAgent._diagnose: the findings in the order the checks append them,
\* the severity as the last check that fired left it
diagnose(data) ==
    LET analysis == Get(data, "analysis", EmptyDict)
        health == Get(analysis, "health_indicators", EmptyDict)
        Warn(k) == Get(health, k, None) = "warning"
        found == (IF Warn("engine") THEN <<"Engine temperature elevated">> ELSE <<>>)
                 \o (IF Warn("oil") THEN <<"Oil pressure below threshold">> ELSE <<>>)
                 \o (IF Warn("battery") THEN <<"Battery voltage low">> ELSE <<>>)
                 \o (IF Warn("brakes") THEN <<"Brake pads worn">> ELSE <<>>)
    IN  [vehicle_id |-> Get(analysis, "vehicle_id", "unknown"),
         findings |-> IF found = <<>> THEN <<"No issues detected">> ELSE found,
         severity |-> IF Warn("brakes") THEN "high"
                      ELSE IF Warn("battery") THEN "medium"
                      ELSE IF Warn("oil") \/ Warn("engine") THEN "high"
                      ELSE "low"]

\* BuiltinAgent._schedule
schedule(data) ==
    [appointment_id |-> "APT",
     vehicle_id |-> Get(Get(data, "diagnosis", EmptyDict), "vehicle_id", "unknown"),
     priority |-> Get(Get(data, "diagnosis", EmptyDict), "severity", "low"),
     status |-> "pending"]

\* BuiltinAgent._engage
engage(data) ==
    [engagement_id |-> "ENG",
     customer_id |-> Get(Get(data, "customer", EmptyDict), "id", "unknown"),
     status |-> "prepared"]

\* the dict a Result's output stands for, given the input_data of its task:
\* what the builtin handler computed, {} for a failed Result, and for the
\* other adapters a dict with none of the keys the MasterAgent looks for
OutputOf(result, data) ==
    CASE result.output.kind = "_analyze"  -> analyze(data)
      [] result.output.kind = "_diagnose" -> diagnose(data)
      [] result.output.kind = "_schedule" -> schedule(data)
      [] result.output.kind = "_engage"   -> engage(data)
      [] result.output.kind = "{}"        -> EmptyDict
      [] OTHER -> [produced_by |-> result.output.kind]

----------------------------------------------------------------------------
(* MasterAgent.process_telemetry and _initiate_service_workflow.  A run is *)
(* the results dict being filled: its stages in insertion order, with the  *)
(* stages executed, the worker executions started and the actions reported *)
(* to the scoring collaborator, each in order.                             *)

Stage(name, value) == [name |-> name, value |-> value]

Run0 == [stages |-> <<>>, log |-> <<>>, dispatched |-> <<>>, reports |-> <<>>]

\* the keys results is created with
results_keys == {"workflow_id", "vehicle_id", "timestamp", "stages"}

\* a plausible slip: an action is required only when a service was arranged
CompletedIfService(acc, needs_diagnosis) ==
    [stages |-> acc.stages, log |-> acc.log, dispatched |-> acc.dispatched,
     reports |-> acc.reports, status |-> "completed",
     requires_action |-> \E i \in 1..Len(acc.stages) :
                            acc.stages[i].name = "engagement",
     error |-> NoError,
     keys |-> results_keys \cup {"status", "requires_action"}]

\* results["status"] = "completed"; results["requires_action"] = needs_diagnosis
Completed(acc, needs_diagnosis) ==
    [stages |-> acc.stages, log |-> acc.log, dispatched |-> acc.dispatched,
     reports |-> acc.reports, status |-> "completed",
     requires_action |-> needs_diagnosis, error |-> NoError,
     keys |-> results_keys \cup {"status", "requires_action"}]

\* a plausible slip: the summary of a failed run starts from empty stages
FailedDropsStages(acc) ==
    [stages |-> <<>>, log |-> acc.log, dispatched |-> acc.dispatched,
     reports |-> acc.reports, status |-> "failed",
     requires_action |-> None, error |-> StrE,
     keys |-> results_keys \cup {"status", "error"}]

\* except Exception: results["status"] = "failed"; results["error"] = str(e)
Failed(acc) ==
    [stages |-> acc.stages, log |-> acc.log, dispatched |-> acc.dispatched,
     reports |-> acc.reports, status |-> "failed",
     requires_action |-> None, error |-> StrE,
     keys |-> results_keys \cup {"status", "error"}]

\* telemetry.get("vehicle_id", "unknown") is evaluated before the try: a
\* telemetry that is not a dict makes the call raise, no summary is returned
IsMap(telemetry) == "not_a_map" \notin DOMAIN telemetry

Raised ==
    [stages |-> <<>>, log |-> <<>>, dispatched |-> <<>>, reports |-> <<>>,
     status |-> None, requires_action |-> None, error |-> StrE, keys |-> {}]

\* self.adapter.execute_task(self.worker_agents[key], ...) can be evaluated:
\* there is an adapter and the roster has the key
CanDispatch(m, key) == m.adapter /\ key \in DOMAIN m.worker_agents

\* one call of _report_to_ueba with the action it reports
Report(m, acc, name, action_data, response) ==
    [acc |-> [acc EXCEPT !.log = Append(@, name),
                         !.reports = Append(@, action_data)],
     answer |-> report_to_ueba(m, response)]

\* a plausible slip: a stage whose Result failed is dispatched a second time
DispatchStageRetry(m, acc, name, key, task, data, tp) ==
    LET run == execute_task(m.worker_agents[key], task, tp)
        output == OutputOf(run.result, data)
        value == [success |-> run.result.success, output |-> output]
    IN  [acc |-> [acc EXCEPT
                    !.stages = Append(@, Stage(name, value)),
                    !.log = IF run.result.success THEN Append(@, name)
                            ELSE @ \o <<name, name>>,
                    !.dispatched = IF run.result.success THEN @ \o run.log
                                   ELSE @ \o run.log \o run.log],
         result |-> run.result, output |-> output]

\* a plausible slip: the stage entry says success whatever the Result says
DispatchStageHidesFailure(m, acc, name, key, task, data, tp) ==
    LET run == execute_task(m.worker_agents[key], task, tp)
        output == OutputOf(run.result, data)
        value == [success |-> TRUE, output |-> output]
    IN  [acc |-> [acc EXCEPT !.stages = Append(@, Stage(name, value)),
                             !.log = Append(@, name),
                             !.dispatched = @ \o run.log],
         result |-> run.result, output |-> output]

\* a plausible slip: only a successful Result is entered under the stage's
\* name
DispatchStageSkipsFailed(m, acc, name, key, task, data, tp) ==
    LET run == execute_task(m.worker_agents[key], task, tp)
        output == OutputOf(run.result, data)
        value == [success |-> run.result.success, output |-> output]
    IN  [acc |-> [acc EXCEPT !.stages = IF run.result.success
                                        THEN Append(@, Stage(name, value)) ELSE @,
                             !.log = Append(@, name),
                             !.dispatched = @ \o run.log],
         result |-> run.result, output |-> output]

\* a stage: one execute_task on the worker recorded for the kind, and the
\* entry {"success", "output"} put under the stage's name
DispatchStage(m, acc, name, key, task, data, tp) ==
    LET run == execute_task(m.worker_agents[key], task, tp)
        output == OutputOf(run.result, data)
        value == [success |-> run.result.success, output |-> output]
    IN  [acc |-> [acc EXCEPT !.stages = Append(@, Stage(name, value)),
                             !.log = Append(@, name),
                             !.dispatched = @ \o run.log],
         result |-> run.result, output |-> output]

\* the action reported after scheduling; payload is the scheduling output
\* whose serialised length the code sends as payload_size
SchedulingAction(m, result, output) ==
    [agent_id |-> m.worker_agents["scheduling"], agent_type |-> "scheduling",
     action_type |-> "schedule", success |-> result.success, payload |-> output]

\* a plausible slip: the appointment is booked before the customer is engaged
initiate_service_workflowScheduleFirst(m, acc, vehicle_id, diagnosis, response, tp) ==
    LET customer == [id |-> "CUST-" \o vehicle_id, name |-> "Valued Customer"]
        findings == Get(diagnosis, "findings", <<"Service">>)
    IN  IF findings = <<>> \/ ~CanDispatch(m, "scheduling")
        THEN [acc |-> acc, raised |-> TRUE]
        ELSE
        LET sc == DispatchStage(m, acc, "scheduling", "scheduling",
                    AgentTask("WF-schedule", "schedule", 2, FALSE),
                    [diagnosis |-> diagnosis, customer |-> customer,
                     vehicle_id |-> vehicle_id],
                    tp.scheduling)
        IN  IF ~CanDispatch(m, "customer_engagement")
            THEN [acc |-> sc.acc, raised |-> TRUE]
            ELSE
            LET e == DispatchStage(m, sc.acc, "engagement", "customer_engagement",
                        AgentTask("WF-engage", "engage", 2, FALSE),
                        [appointment |-> [service_type |-> findings[1]],
                         customer |-> customer, diagnosis |-> diagnosis],
                        tp.engagement)
                r == Report(m, e.acc, "ueba_report",
                            SchedulingAction(m, sc.result, sc.output), response)
            IN  [acc |-> r.acc, raised |-> r.answer.raised]

\* _initiate_service_workflow: engagement, scheduling, then the report of
\* the scheduling action; it has no try of its own, so that an exception
\* (no adapter, no roster entry, an empty findings list, a scheduling
\* output json.dumps cannot serialise) leaves it
initiate_service_workflow(m, acc, vehicle_id, diagnosis, response, tp) ==
    LET customer == [id |-> "CUST-" \o vehicle_id, name |-> "Valued Customer"]
        findings == Get(diagnosis, "findings", <<"Service">>)
    IN  IF findings = <<>> \/ ~CanDispatch(m, "customer_engagement")
        THEN [acc |-> acc, raised |-> TRUE]
        ELSE
        LET e == DispatchStage(m, acc, "engagement", "customer_engagement",
                    AgentTask("WF-engage", "engage", 2, FALSE),
                    [appointment |-> [service_type |-> findings[1]],
                     customer |-> customer, diagnosis |-> diagnosis],
                    tp.engagement)
        IN  IF ~CanDispatch(m, "scheduling")
            THEN [acc |-> e.acc, raised |-> TRUE]
            ELSE
            LET sc == DispatchStage(m, e.acc, "scheduling", "scheduling",
                        AgentTask("WF-schedule", "schedule", 2, FALSE),
                        [diagnosis |-> diagnosis, customer |-> customer,
                         vehicle_id |-> vehicle_id],
                        tp.scheduling)
                r == Report(m, sc.acc, "ueba_report",
                            SchedulingAction(m, sc.result, sc.output), response)
            IN  IF sc.result.output.kind = "crewai"
                THEN [acc |-> sc.acc, raised |-> TRUE]
                ELSE [acc |-> r.acc, raised |-> r.answer.raised]

\* a plausible slip: an alert ends the run
ueba_blocksOnAlert(ueba_result) == Get(ueba_result, "alert", FALSE)

\* the branch taken on ueba_result.get("alert"): it logs a warning and
\* never ends the run
ueba_blocks(ueba_result) == FALSE

\* a plausible slip: the threshold is compared with >=
needs_diagnosisAtLeast(prediction, analysis_output) ==
    \/ Get(prediction, "failure_probability", 0) >= 30
    \/ Get(analysis_output, "overall_status", None) = "needs_attention"

\* needs_diagnosis; failure_probability is in hundredths (0.3 is 30)
needs_diagnosis(prediction, analysis_output) ==
    \/ Get(prediction, "failure_probability", 0) > 30
    \/ Get(analysis_output, "overall_status", None) = "needs_attention"

\* a plausible slip: a medium severity does not start the service workflow
needs_serviceHighOnly(diagnosis_output) ==
    Get(diagnosis_output, "severity", "low") \in {"high", "critical"}

\* a plausible slip: the default severity "low" is taken as actionable too
needs_serviceAnySeverity(diagnosis_output) ==
    Get(diagnosis_output, "severity", "low") \in {"high", "critical", "medium", "low"}

\* severity in ["high", "critical", "medium"]
needs_service(diagnosis_output) ==
    Get(diagnosis_output, "severity", "low") \in {"high", "critical", "medium"}

\* the action reported at the start of a run
TelemetryAction(telemetry) ==
    [agent_id |-> "master-001", agent_type |-> "master", action_type |-> "query",
     success |-> TRUE, payload |-> telemetry.readings]

\* process_telemetry: everything after the first statement is inside one
\* try whose except turns any exception into status "failed"
process_telemetry(m, telemetry, response, ml, tp) ==
    LET vehicle_id == Get(telemetry.readings, "vehicle_id", "unknown")
        u == Report(m, Run0, "ueba_check", TelemetryAction(telemetry), response)
        acc1 == [u.acc EXCEPT !.stages = Append(@, Stage("ueba_check", u.answer.value))]
    IN  IF ~IsMap(telemetry) THEN Raised
        ELSE IF u.answer.raised THEN Failed(u.acc)
        ELSE IF ueba_blocks(u.answer.value) \/ ~CanDispatch(m, "data_analysis")
        THEN Failed(acc1)
        ELSE
        LET a == DispatchStage(m, acc1, "analysis", "data_analysis",
                    AgentTask("WF-analysis", "analyze", 1, telemetry.non_numeric),
                    [telemetry |-> telemetry.readings], tp.analysis)
            p == get_ml_prediction(m, ml)
            acc3 == [a.acc EXCEPT !.stages = Append(@, Stage("prediction", p.value)),
                                  !.log = Append(@, "prediction")]
        IN  IF p.raised THEN Failed([a.acc EXCEPT !.log = Append(@, "prediction")])
            ELSE IF ~needs_diagnosis(p.value, a.output) THEN Completed(acc3, FALSE)
            ELSE IF ~CanDispatch(m, "diagnosis") THEN Failed(acc3)
            ELSE
            LET d == DispatchStage(m, acc3, "diagnosis", "diagnosis",
                        AgentTask("WF-diagnosis", "diagnose", 1, FALSE),
                        [analysis |-> a.output, prediction |-> p.value],
                        tp.diagnosis)
                sw == initiate_service_workflow(m, d.acc, vehicle_id, d.output,
                                                response, tp)
            IN  IF ~needs_service(d.output) THEN Completed(d.acc, TRUE)
                ELSE IF sw.raised THEN Failed(sw.acc)
                ELSE Completed(sw.acc, TRUE)

\* the third-party outcomes a run can meet, one per dispatched stage
StageKeys == {"analysis", "diagnosis", "engagement", "scheduling"}

RunOutcomes ==
    IF framework = "builtin" \/ ~available
    THEN {[k \in StageKeys |-> "ok"]}
    ELSE {tp \in [StageKeys -> {"ok", "raise"}] : Faults(tp) <= MaxFaults}

ProcessTelemetry(telemetry, response, ml, tp) ==
    /\ Idle
    /\ tp \in RunOutcomes
    /\ telemetry.non_numeric => framework = "builtin"
    /\ \E out \in {process_telemetry(master, telemetry, response, ml, tp)} :
            ret' = [Call("process_telemetry") EXCEPT
                        !.inputs = [telemetry |-> telemetry, ueba |-> response,
                                    ml |-> ml, tp |-> tp],
                        !.run = out, !.dispatched = out.dispatched,
                        !.raised = (out = Raised)]
    /\ UNCHANGED <<framework, available, agents, handles, is_initialized,
                   user_proxy, executor_shutdown, master, flight, ueba, scheduling>>

----------------------------------------------------------------------------
(* process_telemetry as a coroutine.  The calls of _report_to_ueba and of  *)
(* _get_ml_prediction are awaited: the run is suspended there and another  *)
(* run of the same MasterAgent can go on.  Everything between two awaits   *)
(* is synchronous.  results is a local of the call; what the runs share is *)
(* the MasterAgent, its adapter and the workers with their history lists.  *)

\* the subjects (vehicles) whose runs are followed
Subjects == {"V1", "V2"}

\* a coroutine: where it is suspended, its arguments and collaborator
\* answers, its local results, and the summary it returned
NoRun == [pc |-> "idle", inputs |-> <<>>, acc |-> Run0, summary |-> <<>>]

NoFlight == [runs |-> [s \in Subjects |-> NoRun], history |-> <<>>]

Suspended(run, pc, acc) == [run EXCEPT !.pc = pc, !.acc = acc]

Returned(run, summary) == [run EXCEPT !.pc = "done", !.summary = summary]

\* a plausible slip: results is kept on the MasterAgent, so that a run
\* continues on the dict of the run that is in flight beside it
resultsShared(f, s) ==
    LET o == CHOOSE x \in Subjects : x # s
    IN  IF f.runs[o].pc \notin {"idle", "done"} THEN f.runs[o].acc
        ELSE f.runs[s].acc

\* the results dict of the run of subject s
results(f, s) == f.runs[s].acc

\* the call up to its first await: results is created and the telemetry
\* action is sent to the scoring collaborator
start(m, run, telemetry, response, ml, tp) ==
    LET inputs == [telemetry |-> telemetry, ueba |-> response, ml |-> ml, tp |-> tp]
        started == [run EXCEPT !.inputs = inputs]
    IN  IF ~IsMap(telemetry) THEN Returned(started, Raised)
        ELSE Suspended(started, "ueba_check",
                       Report(m, Run0, "ueba_check", TelemetryAction(telemetry),
                              response).acc)

\* a plausible slip: the service workflow is awaited as a task of its own,
\* so that the run is suspended between its diagnosis and its engagement
resumeSuspendsBeforeService(m, f, s) ==
    LET run == f.runs[s]
        acc == f.runs[s].acc
        in == run.inputs
        Value(name) ==
            acc.stages[CHOOSE i \in 1..Len(acc.stages) : acc.stages[i].name = name].value
    IN  CASE run.pc = "ueba_check" ->
                LET u == report_to_ueba(m, in.ueba)
                    acc1 == [acc EXCEPT !.stages = Append(@, Stage("ueba_check", u.value))]
                IN  IF u.raised THEN Returned(run, Failed(acc))
                    ELSE IF ueba_blocks(u.value) \/ ~CanDispatch(m, "data_analysis")
                    THEN Returned(run, Failed(acc1))
                    ELSE Suspended(run, "prediction",
                            [DispatchStage(m, acc1, "analysis", "data_analysis",
                                AgentTask("WF-analysis", "analyze", 1,
                                          in.telemetry.non_numeric),
                                [telemetry |-> in.telemetry.readings],
                                in.tp.analysis).acc
                             EXCEPT !.log = Append(@, "prediction")])
          [] run.pc = "prediction" ->
                LET p == get_ml_prediction(m, in.ml)
                    acc3 == [acc EXCEPT !.stages = Append(@, Stage("prediction", p.value))]
                    d == DispatchStage(m, acc3, "diagnosis", "diagnosis",
                            AgentTask("WF-diagnosis", "diagnose", 1, FALSE),
                            [analysis |-> Value("analysis").output,
                             prediction |-> p.value],
                            in.tp.diagnosis)
                IN  IF p.raised THEN Returned(run, Failed(acc))
                    ELSE IF ~needs_diagnosis(p.value, Value("analysis").output)
                    THEN Returned(run, Completed(acc3, FALSE))
                    ELSE IF ~CanDispatch(m, "diagnosis")
                    THEN Returned(run, Failed(acc3))
                    ELSE IF ~needs_service(d.output)
                    THEN Returned(run, Completed(d.acc, TRUE))
                    ELSE Suspended(run, "service", d.acc)
          [] run.pc = "service" ->
                LET sw == initiate_service_workflow(m, acc,
                            Get(in.telemetry.readings, "vehicle_id", "unknown"),
                            Value("diagnosis").output, in.ueba, in.tp)
                IN  IF sw.raised THEN Returned(run, Failed(sw.acc))
                    ELSE Suspended(run, "ueba_report", sw.acc)
          [] run.pc = "ueba_report" -> Returned(run, Completed(acc, TRUE))

\* the run from the await it is suspended at to its next await or its return
resume(m, f, s) ==
    LET run == f.runs[s]
        acc == results(f, s)
        in == run.inputs
        Value(name) ==
            acc.stages[CHOOSE i \in 1..Len(acc.stages) : acc.stages[i].name = name].value
    IN  CASE run.pc = "ueba_check" ->
                LET u == report_to_ueba(m, in.ueba)
                    acc1 == [acc EXCEPT !.stages = Append(@, Stage("ueba_check", u.value))]
                IN  IF u.raised THEN Returned(run, Failed(acc))
                    ELSE IF ueba_blocks(u.value) \/ ~CanDispatch(m, "data_analysis")
                    THEN Returned(run, Failed(acc1))
                    ELSE Suspended(run, "prediction",
                            [DispatchStage(m, acc1, "analysis", "data_analysis",
                                AgentTask("WF-analysis", "analyze", 1,
                                          in.telemetry.non_numeric),
                                [telemetry |-> in.telemetry.readings],
                                in.tp.analysis).acc
                             EXCEPT !.log = Append(@, "prediction")])
          [] run.pc = "prediction" ->
                LET p == get_ml_prediction(m, in.ml)
                    acc3 == [acc EXCEPT !.stages = Append(@, Stage("prediction", p.value))]
                    d == DispatchStage(m, acc3, "diagnosis", "diagnosis",
                            AgentTask("WF-diagnosis", "diagnose", 1, FALSE),
                            [analysis |-> Value("analysis").output,
                             prediction |-> p.value],
                            in.tp.diagnosis)
                    sw == initiate_service_workflow(m, d.acc,
                            Get(in.telemetry.readings, "vehicle_id", "unknown"),
                            d.output, in.ueba, in.tp)
                IN  IF p.raised THEN Returned(run, Failed(acc))
                    ELSE IF ~needs_diagnosis(p.value, Value("analysis").output)
                    THEN Returned(run, Completed(acc3, FALSE))
                    ELSE IF ~CanDispatch(m, "diagnosis")
                    THEN Returned(run, Failed(acc3))
                    ELSE IF ~needs_service(d.output)
                    THEN Returned(run, Completed(d.acc, TRUE))
                    ELSE IF sw.raised THEN Returned(run, Failed(sw.acc))
                    ELSE Suspended(run, "ueba_report", sw.acc)
          [] run.pc = "ueba_report" -> Returned(run, Completed(acc, TRUE))

\* BuiltinAgent.execute appends an entry to the worker's history for every
\* task it completed: the entries a step of the run of s has added
Appended(s, before, after) ==
    IF framework # "builtin" THEN <<>>
    ELSE LET new == SubSeq(after.stages, Len(before.stages) + 1, Len(after.stages))
             done == SelectSeq(new, LAMBDA st : st.name \in {"analysis", "diagnosis",
                                    "engagement", "scheduling"} /\ st.value.success)
         IN  [i \in 1..Len(done) |-> [subject |-> s, stage |-> done[i].name]]

\* what a run holds in results: its local dict, or the summary it returned
Held(run) == IF run.pc = "done" THEN run.summary ELSE run.acc

StartRun(s, telemetry, response, ml, tp) ==
    /\ flight.runs[s].pc = "idle"
    /\ tp \in RunOutcomes
    /\ telemetry.non_numeric => framework = "builtin"
    /\ Get(telemetry.readings, "vehicle_id", s) = s
    /\ flight' = [flight EXCEPT
                    !.runs[s] = start(master, @, telemetry, response, ml, tp)]
    /\ UNCHANGED <<framework, available, agents, handles, is_initialized,
                   user_proxy, executor_shutdown, master, ret,
                   ueba, scheduling>>

Resume(s) ==
    /\ flight.runs[s].pc \notin {"idle", "done"}
    /\ \E next \in {resume(master, flight, s)} :
            flight' = [runs |-> [flight.runs EXCEPT ![s] = next],
                       history |-> flight.history
                            \o Appended(s, flight.runs[s].acc, Held(next))]
    /\ UNCHANGED <<framework, available, agents, handles, is_initialized,
                   user_proxy, executor_shutdown, master, ret,
                   ueba, scheduling>>

----------------------------------------------------------------------------
(* The UEBA scoring service: ueba/main.py.  The two histories are deques   *)
(* with a maxlen; what the retraining depends on is their length.          *)

\* agent_actions_history = deque(maxlen=10000)
actions_maxlen == 10000

\* alerts_history = deque(maxlen=1000)
alerts_maxlen == 1000

\* if len(agent_actions_history) % 100 == 0: train_isolation_forest()
retrain_every == 100

\* most anomalous actions scored
MaxAlerts == 2

\* deque.append on a deque of n entries: a full deque drops its oldest entry
DequeAppend(n, maxlen) == IF n < maxlen THEN n + 1 ELSE maxlen

\* train_isolation_forest: a model is fitted when there are 50 actions
train_isolation_forest(n, trained) == IF n < 50 THEN trained ELSE TRUE

\* startup_event -> initialize_baseline: 20 copies of the 5 baseline actions
\* and a first training.  since counts the actions recorded since the last
\* training; retrained and gap describe the last score_action call
initialize_baseline ==
    [actions |-> 20 * 5, alerts |-> 0,
     trained |-> train_isolation_forest(20 * 5, FALSE),
     since |-> 0, retrained |-> FALSE, gap |-> 0]

\* score_action: the action is appended, an alert is appended when it is an
\* anomaly, and the model is retrained when the length of the history is a
\* multiple of 100
ScoreAction(is_anomaly) ==
    /\ is_anomaly => ueba.alerts < MaxAlerts
    /\ \E n \in {DequeAppend(ueba.actions, actions_maxlen)} :
            ueba' = [actions |-> n,
                     alerts |-> IF is_anomaly
                                THEN DequeAppend(ueba.alerts, alerts_maxlen)
                                ELSE ueba.alerts,
                     trained |-> IF n % retrain_every = 0
                                 THEN train_isolation_forest(n, ueba.trained)
                                 ELSE ueba.trained,
                     since |-> IF n % retrain_every = 0 THEN 0 ELSE ueba.since + 1,
                     retrained |-> (n % retrain_every = 0),
                     gap |-> ueba.since + 1]
    /\ UNCHANGED <<framework, available, agents, handles, is_initialized,
                   user_proxy, executor_shutdown, master, flight, ret, scheduling>>

----------------------------------------------------------------------------
(* The SchedulingAgent: workers/scheduling_agent.py.                       *)

\* the time slots _initialize_availability generates, in the order of
\* their date and start time
TimeSlots == 1..3

\* most appointments made
MaxAppointments == 2

\* SchedulingAgent.__init__: every slot AVAILABLE, no appointment
SchedulingAgent_init ==
    [time_slots |-> [k \in TimeSlots |-> "available"], appointments |-> <<>>]

\* _find_available_slots: the AVAILABLE slots, sorted so that the slot that
\* matches the preferred centre, date and time comes first and the others
\* follow by date and time; preferred is 0 when nothing is preferred
find_available_slots(sa, preferred) ==
    LET others == SelectSeq([k \in TimeSlots |-> k],
                            LAMBDA k : sa.time_slots[k] = "available" /\ k # preferred)
    IN  IF preferred \in TimeSlots /\ sa.time_slots[preferred] = "available"
        THEN <<preferred>> \o others
        ELSE others

\* _book_slot: slots[slot_id].status = TimeSlotStatus.BOOKED
book_slot(time_slots, slot_id) == [time_slots EXCEPT ![slot_id] = "booked"]

\* _schedule_appointment: without customer_id or vehicle_id an error, with
\* no slot "no_availability"; else the selected slot is booked and the
\* appointment stored as CONFIRMED
ScheduleAppointment(has_ids, preferred) ==
    /\ Len(scheduling.appointments) < MaxAppointments
    /\ \E found \in {find_available_slots(scheduling, preferred)} :
            scheduling' =
                IF ~has_ids \/ found = <<>> THEN scheduling
                ELSE [time_slots |-> book_slot(scheduling.time_slots, found[1]),
                      appointments |-> Append(scheduling.appointments,
                            [slot |-> found[1], status |-> "confirmed"])]
    /\ UNCHANGED <<framework, available, agents, handles, is_initialized,
                   user_proxy, executor_shutdown, master, flight, ret, ueba>>

\* reschedule_appointment: an unknown id is an error, no slot is "failed";
\* else the first slot found is booked and the appointment moved to it as
\* RESCHEDULED.  The slot it held is left as it is
RescheduleAppointment(appointment_id, preferred) ==
    /\ \E found \in {find_available_slots(scheduling, preferred)} :
            scheduling' =
                IF appointment_id \notin DOMAIN scheduling.appointments
                    \/ found = <<>>
                THEN scheduling
                ELSE [time_slots |-> book_slot(scheduling.time_slots, found[1]),
                      appointments |-> [scheduling.appointments EXCEPT
                            ![appointment_id] =
                                [slot |-> found[1], status |-> "rescheduled"]]]
    /\ UNCHANGED <<framework, available, agents, handles, is_initialized,
                   user_proxy, executor_shutdown, master, flight, ret, ueba>>

\* cancel_appointment: an unknown id is an error; else the appointment is
\* CANCELLED.  The slot it held is left as it is
CancelAppointment(appointment_id) ==
    /\ scheduling' =
            IF appointment_id \notin DOMAIN scheduling.appointments THEN scheduling
            ELSE [scheduling EXCEPT !.appointments[appointment_id].status = "cancelled"]
    /\ UNCHANGED <<framework, available, agents, handles, is_initialized,
                   user_proxy, executor_shutdown, master, flight, ret, ueba>>

----------------------------------------------------------------------------
(* The adapter as its callers drive it.                                    *)

\* the state after construction: BaseAgentAdapter.__init__ and the
\* subclass constructors; the builtin adapter has no optional dependency
Init ==
    /\ framework \in Frameworks
    /\ available \in (IF framework = "builtin" THEN {TRUE} ELSE BOOLEAN)
    /\ agents = <<>>
    /\ handles = <<>>
    /\ is_initialized = FALSE
    /\ user_proxy = FALSE
    /\ executor_shutdown = FALSE
    /\ master = NoMaster
    /\ flight = NoFlight
    /\ ueba = initialize_baseline
    /\ scheduling = SchedulingAgent_init
    /\ ret = NoCall

Outcomes == {"ok", "raise"}

\* --- single calls on every adapter: lifecycle and execute_task ---

AgentIds == {"w1", "w2"}

TaskIds == {"t1", "t2"}

\* a handler that reads its input, one that does not, and the generic one
TaskTypes == {"analyze", "predict", "report"}

WorkerTypes == {"master", "data_analysis"}

Next ==
    \/ \E tp \in Outcomes : Initialize(tp)
    \/ \E t \in WorkerTypes, id \in AgentIds, tp \in Outcomes :
            CreateAgent(t, id, tp)
    \/ Shutdown
    \/ \E id \in AgentIds, tid \in TaskIds, k \in TaskTypes, m \in BOOLEAN,
          tp \in Outcomes :
            ExecuteTask(id, AgentTask(tid, k, 1, m), tp)
    \/ Return

Spec == Init /\ [][Next]_vars

\* --- the builtin adapter's registry and routing, over every agent type
\*     and every task type ---

RoutingAgentIds == {"w1", "w2", "w3"}

RoutingTaskTypes == HandledTaskTypes \cup {"report"}

InitBuiltin == Init /\ framework = "builtin"

NextRouting ==
    \/ \E t \in AgentType, id \in RoutingAgentIds : CreateAgent(t, id, "ok")
    \/ Shutdown
    \/ \E k \in RoutingTaskTypes :
            OrchestrateWorkflow(<<AgentTask("t1", k, 1, FALSE)>>, NoConfig, <<"ok">>)
    \/ Return

SpecRouting == InitBuiltin /\ [][NextRouting]_vars

\* --- batches ---

\* a task type with a reading handler that is routed by type, and one that
\* is generic and routed to the default worker
BatchTaskTypes == {"analyze", "report"}

TaskName(i) == "t" \o ToString(i)

\* the batches of n tasks named t1..tn with priorities from prios, at most
\* MaxFaults of them malformed; the alternate adapters hand the input to
\* the third party, whose failure is tp
Batches(n, prios) ==
    {[i \in 1..n |-> AgentTask(TaskName(i), k[i], p[i], m[i])] :
        k \in [1..n -> BatchTaskTypes], p \in [1..n -> prios],
        m \in {mm \in [1..n -> IF framework = "builtin" THEN BOOLEAN ELSE {FALSE}] :
                    Cardinality({i \in 1..n : mm[i]}) <= MaxFaults}}

\* workflow_config: none, an agent_mapping entry, chain_outputs switched off
Configs ==
    {NoConfig,
     [NoConfig EXCEPT !.agent_mapping = {[task_type |-> "report", agent_id |-> "w2"]}],
     [NoConfig EXCEPT !.chain_outputs = FALSE]}

\* --- batches on the builtin adapter, priorities as in [3, 1, 2] ---

NextWorkflow ==
    \/ CreateAgent("data_analysis", "w1", "ok")
    \/ CreateAgent("master", "w2", "ok")
    \/ \E id \in AgentIds, k \in BatchTaskTypes, m \in BOOLEAN :
            ExecuteTask(id, AgentTask("t1", k, 1, m), "ok")
    \/ /\ Idle
       /\ \E n \in 0..MaxTasks : \E tasks \in Batches(n, {1, 2, 3}), config \in Configs :
            OrchestrateWorkflow(tasks, config, [i \in 1..n |-> "ok"])
    \/ Return

SpecWorkflow == InitBuiltin /\ [][NextWorkflow]_vars

\* --- output chaining on the builtin adapter: batches of two priorities,
\*     with chaining left on and switched off ---

NextChaining ==
    \/ CreateAgent("data_analysis", "w1", "ok")
    \/ CreateAgent("master", "w2", "ok")
    \/ /\ Idle
       /\ \E n \in 0..MaxTasks : \E tasks \in Batches(n, {1, 2}),
             config \in {NoConfig, [NoConfig EXCEPT !.chain_outputs = FALSE]} :
                OrchestrateWorkflow(tasks, config, [i \in 1..n |-> "ok"])
    \/ Return

SpecChaining == InitBuiltin /\ [][NextChaining]_vars

\* --- batches on every adapter ---

NextVariants ==
    \/ \E tp \in Outcomes : Initialize(tp)
    \/ CreateAgent("data_analysis", "w1", "ok")
    \/ CreateAgent("master", "w2", "ok")
    \/ Shutdown
    \/ /\ Idle
       /\ \E n \in 0..MaxTasks : \E tasks \in Batches(n, {1, 2}) :
            \E tp \in BatchOutcomes(n) : OrchestrateWorkflow(tasks, NoConfig, tp)
    \/ Return

SpecVariants == Init /\ [][NextVariants]_vars

\* --- single calls and batches on every adapter, with workers that overrun
\*     the task's timeout ---

NextTasks ==
    \/ \E tp \in Outcomes : Initialize(tp)
    \/ \E tp \in Outcomes : CreateAgent("data_analysis", "w1", tp)
    \/ CreateAgent("master", "w2", "ok")
    \/ Shutdown
    \/ \E id \in AgentIds, k \in BatchTaskTypes, m \in BOOLEAN,
          tp \in Outcomes \cup {"slow"} :
            ExecuteTask(id, AgentTask("t1", k, 1, m), tp)
    \/ /\ Idle
       /\ \E n \in 0..MaxTasks : \E tasks \in Batches(n, {1}) :
            \E tp \in BatchOutcomes(n) : OrchestrateWorkflow(tasks, NoConfig, tp)
    \/ Return

SpecTasks == Init /\ [][NextTasks]_vars

\* --- the MasterAgent: initialize, runs, shutdown ---

Telemetry(readings, non_numeric) == [readings |-> readings, non_numeric |-> non_numeric]

\* readings in hundredths: all good; none given (the defaults apply); the
\* engine exactly at its limit; a low battery alone; a hot engine with a low
\* battery; engine_temp 118.5, oil_pressure 26.2, battery_voltage 10.5,
\* brake_pad_wear_avg 0.08; and a reading that is not a number
Telemetries ==
    {Telemetry([vehicle_id |-> "V1", engine_temp |-> 9000, oil_pressure |-> 4000,
                battery_voltage |-> 1260, brake_pad_wear_avg |-> 50], FALSE),
     Telemetry([vehicle_id |-> "V1"], FALSE),
     Telemetry([vehicle_id |-> "V1", engine_temp |-> 10000], FALSE),
     Telemetry([vehicle_id |-> "V1", battery_voltage |-> 1050], FALSE),
     Telemetry([vehicle_id |-> "V1", engine_temp |-> 11850,
                battery_voltage |-> 1050], FALSE),
     Telemetry([vehicle_id |-> "V1", engine_temp |-> 11850, oil_pressure |-> 2620,
                battery_voltage |-> 1050, brake_pad_wear_avg |-> 8], FALSE),
     Telemetry([vehicle_id |-> "V1", oil_pressure |-> 4000], TRUE)}

Response(status, body) == [status |-> status, body |-> body]

ErrorResponses ==
    {Response("500", [detail |-> "Internal Server Error"]),
     Response("unreachable", EmptyDict),
     Response("timeout", EmptyDict)}

UebaResponses ==
    {Response("200", [alert |-> TRUE, score |-> 87]),
     Response("200", [alert |-> FALSE, score |-> 3])} \cup ErrorResponses

\* failure_probability in hundredths: absent, 0.1, exactly 0.3, 0.5
MlResponses ==
    {Response("200", [prediction |-> "ok"]),
     Response("200", [failure_probability |-> 10]),
     Response("200", [failure_probability |-> 30]),
     Response("200", [failure_probability |-> 50])} \cup ErrorResponses

NextMaster ==
    \/ \E tp_init \in Outcomes, tp_create \in Outcomes :
            MasterInitialize(tp_init, [i \in DOMAIN worker_configs |-> tp_create])
    \/ MasterShutdown
    \/ /\ Idle
       /\ \E telemetry \in Telemetries, response \in UebaResponses,
             ml \in MlResponses, tp \in RunOutcomes :
                ProcessTelemetry(telemetry, response, ml, tp)
    \/ Return

SpecMaster == Init /\ [][NextMaster]_vars

\* --- runs of a MasterAgent in any condition: a roster cut short by a
\*     create_agent that raised, a telemetry that is not a dict ---

NotAMap == [readings |-> EmptyDict, non_numeric |-> FALSE, not_a_map |-> TRUE]

\* every create_agent of the roster works, or the k-th one meets a failing
\* third-party constructor
CreateOutcomes ==
    {[i \in DOMAIN worker_configs |-> IF i = k THEN "raise" ELSE "ok"] :
        k \in 0..Len(worker_configs)}

NextRuns ==
    \/ \E tp_init \in Outcomes, tp_create \in CreateOutcomes :
            MasterInitialize(tp_init, tp_create)
    \/ MasterShutdown
    \/ /\ Idle
       /\ \E telemetry \in Telemetries \cup {NotAMap}, response \in UebaResponses,
             ml \in MlResponses, tp \in RunOutcomes :
                ProcessTelemetry(telemetry, response, ml, tp)
    \/ Return

SpecRuns == Init /\ [][NextRuns]_vars

\* --- two runs of one MasterAgent in flight together; third-party failures
\*     are met in the analysis and the diagnosis, the stages an alternate
\*     adapter's run gets to ---

\* per subject: all readings good, and the readings that need a service
FlightTelemetries(s) ==
    {Telemetry([vehicle_id |-> s, engine_temp |-> 9000, oil_pressure |-> 4000,
                battery_voltage |-> 1260, brake_pad_wear_avg |-> 50], FALSE),
     Telemetry([vehicle_id |-> s, engine_temp |-> 11850, oil_pressure |-> 2620,
                battery_voltage |-> 1050, brake_pad_wear_avg |-> 8], FALSE)}

FlightUebaResponses ==
    {Response("200", [alert |-> TRUE, score |-> 87]), Response("unreachable", EmptyDict)}

FlightMlResponses ==
    {Response("200", [failure_probability |-> 50]),
     Response("500", [detail |-> "Internal Server Error"])}

NextConcurrent ==
    \/ /\ \A s \in Subjects : flight.runs[s].pc = "idle"
       /\ \E tp_init \in Outcomes :
            MasterInitialize(tp_init, [i \in DOMAIN worker_configs |-> "ok"])
    \/ Return
    \/ /\ Idle
       /\ \E s \in Subjects : \E telemetry \in FlightTelemetries(s),
             response \in FlightUebaResponses, ml \in FlightMlResponses,
             tp \in {t \in RunOutcomes : t.engagement = "ok" /\ t.scheduling = "ok"} :
                StartRun(s, telemetry, response, ml, tp)
    \/ \E s \in Subjects : Resume(s)

SpecConcurrent == Init /\ [][NextConcurrent]_vars

\* --- two runs in flight whose collaborator calls are answered or time
\*     out; a call that is awaited comes back, so a suspended run is resumed ---

\* httpx.TimeoutException: the request got no answer within timeout=30.0
TimedOut == Response("timeout", EmptyDict)

NextLive ==
    \/ /\ \A s \in Subjects : flight.runs[s].pc = "idle"
       /\ \E tp_init \in Outcomes :
            MasterInitialize(tp_init, [i \in DOMAIN worker_configs |-> "ok"])
    \/ Return
    \/ /\ Idle
       /\ \E s \in Subjects :
            \E telemetry \in {t \in FlightTelemetries(s) : "oil_pressure" \in DOMAIN t.readings
                                    /\ t.readings.oil_pressure < 3000},
               response \in {Response("200", [alert |-> TRUE, score |-> 87]), TimedOut},
               ml \in {Response("200", [failure_probability |-> 50]), TimedOut} :
                StartRun(s, telemetry, response, ml, [k \in StageKeys |-> "ok"])
    \/ \E s \in Subjects : Resume(s)

\* httpx.AsyncClient(timeout=30.0): every awaited collaborator call comes
\* back, with an answer or with an exception, and the run is resumed.  This
\* is WF_vars(Resume(s)) written out: Resume(s) is enabled exactly while
\* the run of s is suspended, and a Resume(s) step is a step that moves a
\* suspended run of s on
Awaited(s) ==
    \/ []<>(flight.runs[s].pc \in {"idle", "done"})
    \/ []<><<flight.runs[s].pc \notin {"idle", "done"}
              /\ flight'.runs[s].pc # flight.runs[s].pc>>_vars

SpecLive == Init /\ [][NextLive]_vars /\ \A s \in Subjects : Awaited(s)

\* --- the UEBA scoring service under a sequence of score_action calls ---

NextUeba == \E is_anomaly \in BOOLEAN : ScoreAction(is_anomaly)

SpecUeba == Init /\ [][NextUeba]_vars

\* --- the SchedulingAgent under any sequence of schedule, reschedule and
\*     cancel calls ---

NextScheduling ==
    \/ \E has_ids \in BOOLEAN, preferred \in {0} \cup TimeSlots :
            ScheduleAppointment(has_ids, preferred)
    \/ \E appointment_id \in 1..MaxAppointments, preferred \in {0} \cup TimeSlots :
            RescheduleAppointment(appointment_id, preferred)
    \/ \E appointment_id \in 1..MaxAppointments : CancelAppointment(appointment_id)

SpecScheduling == Init /\ [][NextScheduling]_vars

----------------------------------------------------------------------------
(* Properties.                                                             *)

Executes == ret.op = "execute_task"

Orchestrates == ret.op = "orchestrate_workflow"

\* an error text that is there and not empty
Populated(error) == error # NoError /\ \A i \in 1..Len(error) : error[i] # ""

Mentions(error, word) == \E i \in 1..Len(error) : error[i] = word

\* an execution of the task was started during the call
WasDispatched(task_id) ==
    \E i \in 1..Len(ret.dispatched) : ret.dispatched[i].task_id = task_id

ResultsFor(task_id) ==
    {j \in 1..Len(ret.results) : ret.results[j].task_id = task_id}

PositionOf(task_id) == CHOOSE i \in 1..Len(ret.tasks) : ret.tasks[i].task_id = task_id

\* C1: execute_task of every adapter returns, without raising, one Result
\* whose task_id is the task_id of the task it was given, whichever path
\* (success, worker not found, exception, fallback) produced it.
C1_TaskIdentity ==
    Executes =>
        /\ ~ret.raised
        /\ Len(ret.results) = 1
        /\ ret.results[1].task_id = ret.tasks[1].task_id

\* the fallback path: the crewai runtime raised and the substitute Result
\* was returned for task t2
C1_Witness ==
    /\ Executes
    /\ framework = "crewai"
    /\ ret.tp = <<"raise">>
    /\ ret.results[1].metadata = "crewai_fallback"
    /\ ret.tasks[1].task_id = "t2"

\* C2: execute_task with a worker_id that is not in the registry returns a
\* failed Result with a non-empty error that names the worker and with
\* agent_id the requested id; nothing is raised and nothing is executed.
C2_UnregisteredWorker ==
    (Executes /\ ~Has(agents, ret.agent_id)) =>
        /\ ~ret.raised
        /\ ret.results[1].success = FALSE
        /\ Populated(ret.results[1].error)
        /\ Mentions(ret.results[1].error, ret.agent_id)
        /\ ret.results[1].agent_id = ret.agent_id
        /\ ret.dispatched = <<>>

\* the worker was registered with the autogen runtime and removed by the
\* shutdown just before the call; its autogen handle is still there
C2_Witness ==
    /\ Executes
    /\ ret.after_shutdown
    /\ framework = "autogen"
    /\ user_proxy
    /\ Has(handles, ret.agent_id)
    /\ ~Has(agents, ret.agent_id)

\* C3: in the builtin adapter no exception leaves execute_task or
\* orchestrate_workflow; a task whose handler raised has a failed Result with
\* a populated error, and every task of the batch still has its Result and,
\* when a registered worker was found for it, was executed.
C3_NoEscape ==
    (framework = "builtin" /\ (Executes \/ Orchestrates)) =>
        /\ ~ret.raised
        /\ Len(ret.results) = Len(ret.tasks)
        /\ \A i \in 1..Len(ret.tasks) :
              /\ ResultsFor(ret.tasks[i].task_id) # {}
              /\ \A j \in ResultsFor(ret.tasks[i].task_id) :
                    /\ (WasDispatched(ret.tasks[i].task_id) /\ Raises(ret.tasks[i])) =>
                            (~ret.results[j].success /\ Populated(ret.results[j].error))
                    /\ Has(agents, ret.results[j].agent_id) =>
                            WasDispatched(ret.tasks[i].task_id)

\* a batch of three whose first dispatched task raised and whose other two
\* were executed and succeeded after it
C3_Witness ==
    /\ Orchestrates
    /\ framework = "builtin"
    /\ Len(ret.results) = 3
    /\ Len(ret.dispatched) = 3
    /\ ~ret.results[1].success /\ ret.results[1].error = StrE
    /\ ret.results[2].success
    /\ ret.results[3].success

\* C4: orchestrate_workflow of every adapter returns as many Results as it
\* was given tasks, exactly one for each task_id of the batch (none for the
\* empty batch).
C4_OneResultPerTask ==
    Orchestrates =>
        /\ ~ret.raised
        /\ Len(ret.results) = Len(ret.tasks)
        /\ \A i \in 1..Len(ret.tasks) :
                Cardinality(ResultsFor(ret.tasks[i].task_id)) = 1

\* crewai, a full batch: Crew(...) raised after an earlier task had already
\* been kicked off, and the batch was run again by the fallback
C4_Witness ==
    /\ Orchestrates
    /\ framework = "crewai"
    /\ Len(ret.tasks) = MaxTasks
    /\ \E i \in 1..Len(ret.tasks) : ret.tp[i] = "ctor_raise"
    /\ Len(ret.dispatched) > Len(ret.tasks)

\* C5: the i-th Result of orchestrate_workflow belongs to the i-th input
\* task, whatever the priorities.
C5_OrderAligned ==
    Orchestrates =>
        /\ Len(ret.results) = Len(ret.tasks)
        /\ \A i \in 1..Len(ret.tasks) :
                ret.results[i].task_id = ret.tasks[i].task_id

\* C6: the executions of a batch are started in ascending priority, tasks
\* of equal priority in their input order.
C6_PriorityDispatch ==
    Orchestrates =>
        \A a, b \in 1..Len(ret.dispatched) :
            a < b =>
                LET ia == PositionOf(ret.dispatched[a].task_id)
                    ib == PositionOf(ret.dispatched[b].task_id)
                IN  \/ ret.tasks[ia].priority < ret.tasks[ib].priority
                    \/ /\ ret.tasks[ia].priority = ret.tasks[ib].priority
                       /\ ia < ib

\* priorities [3, 1, 2]: t2, t3, t1 were executed in that order
C6_Witness ==
    /\ Orchestrates
    /\ Len(ret.tasks) = 3
    /\ [i \in 1..3 |-> ret.tasks[i].priority] = <<3, 1, 2>>
    /\ Len(ret.dispatched) = 3
    /\ [i \in 1..3 |-> ret.dispatched[i].task_id] = <<"t2", "t3", "t1">>

\* no worker can be found for the task: in the builtin adapter no
\* agent_mapping entry, no agent of the mapped type and no master agent; in
\* an alternate adapter an empty registry
NoWorkerFor(task) ==
    IF framework = "builtin"
    THEN /\ \A e \in ret.config.agent_mapping : e.task_type # task.task_type
         /\ \A i \in 1..Len(agents) :
                /\ agents[i].agent_type # "master"
                /\ agents[i].agent_type # task_agent_mapping(task.task_type)
    ELSE agents = <<>>

\* the task got the "none" Result and was not executed
NoneResult(task) ==
    /\ ~WasDispatched(task.task_id)
    /\ \A j \in ResultsFor(task.task_id) :
            /\ ret.results[j].agent_id = "none"
            /\ ret.results[j].success = FALSE
            /\ Populated(ret.results[j].error)

\* the batch was run by _fallback_orchestrate
FallbackOrchestration ==
    framework \in {"crewai", "autogen"} /\ (~available \/ handles = <<>>)

StatedKind(task_type) ==
    CASE task_type = "analyze"  -> "data_analysis"
      [] task_type = "diagnose" -> "diagnosis"
      [] task_type = "predict"  -> "data_analysis"
      [] task_type = "schedule" -> "scheduling"
      [] task_type = "engage"   -> "customer_engagement"
      [] task_type = "feedback" -> "feedback"
      [] task_type = "rca_capa" -> "rca_capa"
      [] OTHER -> "unmapped"

MinOf(S) == CHOOSE i \in S : \A j \in S : i <= j

PositionsOfType(agent_type) == {i \in 1..Len(agents) : agents[i].agent_type = agent_type}

\* C8: the builtin adapter routes a task (without an agent_mapping entry)
\* to the first worker, in the order of the registry, of the kind the static
\* map gives for the task kind; if there is none, or the kind is unmapped,
\* to the first master worker; if there is none either, to no worker.
C8_DefaultRouting ==
    (Orchestrates /\ framework = "builtin" /\ Len(ret.tasks) = 1
        /\ ret.config.agent_mapping = {}) =>
        ret.results[1].agent_id =
            IF PositionsOfType(StatedKind(ret.tasks[1].task_type)) # {}
            THEN agents[MinOf(PositionsOfType(StatedKind(ret.tasks[1].task_type)))].agent_id
            ELSE IF PositionsOfType("master") # {}
            THEN agents[MinOf(PositionsOfType("master"))].agent_id
            ELSE "none"

\* a master registered first and two diagnosis workers after it: the
\* diagnose task went to the first of the two
C8_Witness ==
    /\ Orchestrates
    /\ Len(agents) = 3
    /\ [i \in 1..3 |-> agents[i].agent_type] = <<"master", "diagnosis", "diagnosis">>
    /\ ret.tasks[1].task_type = "diagnose"
    /\ ret.results[1].agent_id = agents[2].agent_id
    /\ ret.results[1].success

\* C9: create_agent registers by worker_id: the registry holds one entry per
\* worker_id; registering an id again replaces its entry by the new one and
\* changes neither the number of entries nor any other entry.
C9_IdempotentRegistration ==
    [][ret'.op = "create_agent" =>
        /\ KeySet(agents') = KeySet(agents) \cup {ret'.agent_id}
        /\ Cardinality(KeySet(agents')) = Len(agents')
        /\ DictGet(agents', ret'.agent_id) = Entry(ret'.agent_id, ret'.agent_type)
        /\ Has(agents, ret'.agent_id) => Len(agents') = Len(agents)
        /\ \A k \in KeySet(agents) \ {ret'.agent_id} :
                DictGet(agents', k) = DictGet(agents, k)]_vars

\* the worker_id just registered is the first of at least two entries: it
\* was registered before and has now been registered again
C9_Witness ==
    /\ ret.op = "create_agent"
    /\ Len(agents) >= 2
    /\ agents[1] = Entry(ret.agent_id, ret.agent_type)

\* C10: shutdown never raises and leaves the registry empty and
\* is_initialized false, whatever the state it is called in; a shutdown that
\* follows a shutdown changes nothing, and an execute_task that follows a
\* shutdown returns the worker-not-found failure.
C10_ShutdownIdempotent ==
    [][/\ ret'.op = "shutdown" =>
            /\ ~ret'.raised
            /\ agents' = <<>>
            /\ is_initialized' = FALSE
            /\ ret.after_shutdown => Adapter' = Adapter
       /\ (ret'.op = "execute_task" /\ ret.after_shutdown) =>
            /\ ~ret'.raised
            /\ ret'.results = <<NotFoundResult(ret'.agent_id, ret'.tasks[1])>>
            /\ ret'.dispatched = <<>>]_vars

\* a second shutdown, called right after the first, of an adapter that had
\* been initialized and had a worker
C10_Witness ==
    /\ ret.op = "shutdown"
    /\ ret.after_shutdown
    /\ handles # <<>>
    /\ user_proxy

\* the result came from a fallback path: metadata.framework ends in "_fallback"
FallbackResult(result) == result.metadata = framework \o "_fallback"

\* C11: with the dependency of an alternate adapter unavailable, execute_task
\* on a worker_id that create_agent has just been called for returns a
\* successful Result whose metadata.framework ends in "_fallback".
C11_FallbackWithoutDependency ==
    (Executes /\ framework # "builtin" /\ ~available
        /\ ret.after_create = ret.agent_id) =>
        /\ ret.results[1].success
        /\ FallbackResult(ret.results[1])

\* C12: when the third-party runtime raises during execute_task on a
\* registered worker of an alternate adapter, nothing is raised and the Result
\* is the successful substitute marked "<name>_fallback".
C12_RuntimeFailureSubstituted ==
    (Executes /\ framework # "builtin" /\ Has(agents, ret.agent_id)
        /\ ret.tp = <<"raise">>) =>
        /\ ~ret.raised
        /\ ret.results[1].success
        /\ FallbackResult(ret.results[1])

Processes == ret.op = "process_telemetry"

\* the stage was executed during the run
Entered(name) == \E i \in 1..Len(ret.run.log) : ret.run.log[i] = name

\* the results dict has an entry for the stage
HasStage(name) == \E i \in 1..Len(ret.run.stages) : ret.run.stages[i].name = name

StageValue(name) ==
    ret.run.stages[CHOOSE i \in 1..Len(ret.run.stages) :
                        ret.run.stages[i].name = name].value

\* C13: when the adapter's initialize() returned False, the MasterAgent
\* still has its worker roster and a run dispatches the analysis stage to a
\* worker and ends "completed".
C13_DegradedBackendRuns ==
    (Processes /\ master.adapter /\ ~is_initialized /\ ~master.http_closed) =>
        /\ \A i \in 1..Len(worker_configs) :
                worker_configs[i].agent_type \in DOMAIN master.worker_agents
        /\ Entered("analysis")
        /\ ret.run.status = "completed"

\* the fixed order of the stages of a run
StageOrder ==
    <<"ueba_check", "analysis", "prediction", "diagnosis", "engagement",
      "scheduling", "ueba_report">>

OrderIndex(name) == CHOOSE i \in 1..Len(StageOrder) : StageOrder[i] = name

\* C14: the stages executed in a run follow the fixed order Behavior Check,
\* Analysis, Prediction, Diagnosis, Engagement, Scheduling, second Behavior
\* Check, and none is executed twice.
C14_StageOrder ==
    Processes =>
        \A a, b \in 1..Len(ret.run.log) :
            a < b => OrderIndex(ret.run.log[a]) < OrderIndex(ret.run.log[b])

\* a run that executed all seven stages, after a first run had been made
C14_Witness ==
    /\ Processes
    /\ ret.run.log = StageOrder
    /\ Len(ret.run.dispatched) = 4

\* C15: the Diagnosis stage is entered exactly when failure_probability
\* (0 when missing) is above 0.3 or the analysis says "needs_attention", and
\* requires_action of a completed run says the same.
C15_DiagnosisGate ==
    (Processes /\ HasStage("prediction")) =>
        LET stated ==
                \/ Get(StageValue("prediction"), "failure_probability", 0) > 30
                \/ Get(StageValue("analysis").output, "overall_status", None)
                        = "needs_attention"
        IN  /\ Entered("diagnosis") <=> stated
            /\ HasStage("diagnosis") <=> stated
            /\ ret.run.status = "completed" => ret.run.requires_action = stated

\* failure_probability exactly 0.3 with a healthy analysis: no diagnosis
C15_Witness ==
    /\ Processes
    /\ Get(ret.inputs.ml.body, "failure_probability", 0) = 30
    /\ HasStage("analysis")
    /\ Get(StageValue("analysis").output, "overall_status", None) = "healthy"
    /\ ~HasStage("diagnosis")
    /\ ret.run.status = "completed"
    /\ ret.run.requires_action = FALSE

\* C16: Engagement and Scheduling are entered exactly when the Diagnosis
\* stage ran and its output has severity medium, high or critical.
C16_ServiceGate ==
    Processes =>
        LET actionable ==
                /\ HasStage("diagnosis")
                /\ Get(StageValue("diagnosis").output, "severity", "low")
                        \in {"medium", "high", "critical"}
        IN  /\ Entered("engagement") <=> actionable
            /\ Entered("scheduling") <=> actionable
            /\ HasStage("engagement") <=> actionable
            /\ HasStage("scheduling") <=> actionable

\* a low battery alone: severity medium, and both stages were entered
C16_Witness ==
    /\ Processes
    /\ HasStage("diagnosis")
    /\ Get(StageValue("diagnosis").output, "severity", "low") = "medium"
    /\ HasStage("engagement")
    /\ HasStage("scheduling")

WorkerRuns(task_id) ==
    {i \in 1..Len(ret.dispatched) : ret.dispatched[i].task_id = task_id}

\* C17: a run that enters the service workflow ends with one Engagement
\* dispatch, then one Scheduling dispatch, then one report to the scoring
\* collaborator of the scheduling action, with the success flag and the
\* output of the scheduling Result; and the service workflow of a worker
\* whose engagement Result failed still dispatches the scheduling.
C17_ServiceWorkflowOrder ==
    /\ (Processes /\ (Entered("engagement") \/ Entered("scheduling"))) =>
        LET n == Len(ret.run.log)
        IN  /\ n >= 3
            /\ SubSeq(ret.run.log, n - 2, n) = <<"engagement", "scheduling", "ueba_report">>
            /\ \A i \in 1..(n - 3) :
                    ret.run.log[i] \notin {"engagement", "scheduling", "ueba_report"}
            /\ Cardinality(WorkerRuns("WF-engage")) = 1
            /\ Cardinality(WorkerRuns("WF-schedule")) = 1
            /\ \A i \in WorkerRuns("WF-engage"), j \in WorkerRuns("WF-schedule") : i < j
            /\ ret.run.reports[Len(ret.run.reports)]
                    = [agent_id |-> "scheduling-001", agent_type |-> "scheduling",
                       action_type |-> "schedule",
                       success |-> StageValue("scheduling").success,
                       payload |-> StageValue("scheduling").output]
    /\ (framework = "langgraph" /\ available
            /\ CanDispatch(master, "customer_engagement")
            /\ CanDispatch(master, "scheduling") /\ ~master.http_closed) =>
        \A tp \in [StageKeys -> {"ok", "raise"}] :
            tp.engagement = "raise" =>
                LET r == initiate_service_workflow(master, Run0, "V1",
                            [severity |-> "high", findings |-> <<"brakes">>],
                            Response("200", [alert |-> FALSE, score |-> 3]), tp)
                IN  /\ ~r.raised
                    /\ ~r.acc.stages[1].value.success
                    /\ r.acc.log = <<"engagement", "scheduling", "ueba_report">>

\* the scenario telemetry (brakes worn, severity high): engagement, then
\* scheduling of a "high" appointment, then the report of its success
C17_Witness ==
    /\ Processes
    /\ Entered("engagement")
    /\ Len(ret.run.reports) = 2
    /\ ret.run.reports[2].success
    /\ Get(ret.run.reports[2].payload, "priority", None) = "high"
    /\ ret.run.status = "completed"

\* what a run shows after its Behavior Check
AfterBehaviorCheck(run) ==
    [stages |-> Tail(run.stages), log |-> Tail(run.log),
     dispatched |-> run.dispatched, status |-> run.status,
     requires_action |-> run.requires_action]

\* C18: whatever the scoring collaborator answers, the run goes on to the
\* Analysis, and its later stages, its status and requires_action are those
\* of the same run with the answer alert=false.
C18_BehaviorCheckAdvisory ==
    Processes =>
        /\ CanDispatch(master, "data_analysis") => Entered("analysis")
        /\ AfterBehaviorCheck(ret.run) =
                AfterBehaviorCheck(
                    process_telemetry(master, ret.inputs.telemetry,
                                      Response("200", [alert |-> FALSE, score |-> 0]),
                                      ret.inputs.ml, ret.inputs.tp))

\* an alert was signalled and the run went through all seven stages
C18_Witness ==
    /\ Processes
    /\ Get(StageValue("ueba_check"), "alert", FALSE) = TRUE
    /\ ret.run.log = StageOrder
    /\ ret.run.status = "completed"

\* the request to the collaborator got no 200 answer
NoAnswer(response) == master.http_closed \/ response \in ErrorResponses

\* C19: when the scoring or the prediction collaborator answers 500, is
\* unreachable or times out, a run of a MasterAgent that has its workers
\* raises nothing and ends "completed".
C19_CollaboratorFailureAbsorbed ==
    (Processes /\ CanDispatch(master, "data_analysis")
        /\ (NoAnswer(ret.inputs.ueba) \/ NoAnswer(ret.inputs.ml))) =>
        /\ ~ret.raised
        /\ ret.run.status = "completed"
        /\ ret.run.error = NoError

\* the scoring service answered 500 and the prediction service was
\* unreachable; the run was completed with its analysis
C19_Witness ==
    /\ Processes
    /\ ret.inputs.ueba.status = "500"
    /\ ret.inputs.ml.status = "unreachable"
    /\ ~master.http_closed
    /\ Entered("analysis")
    /\ ret.run.status = "completed"

\* C20 as stated: on every missing or error response the prediction result
\* is exactly {} and the scoring result exactly {alert: false, score: 0}.
C20_NeutralDefaultsExact ==
    Processes =>
        /\ NoAnswer(ret.inputs.ueba) =>
                StageValue("ueba_check") = [alert |-> FALSE, score |-> 0]
        /\ (HasStage("prediction") /\ NoAnswer(ret.inputs.ml)) =>
                StageValue("prediction") = EmptyDict

\* C20 amended: that is so for an answer with a status other than 200; when
\* the request raises (unreachable, timeout, closed client) the results are
\* {"error": text} and {alert: false, score: 0, "error": text}.
C20_NeutralDefaults ==
    Processes =>
        /\ NoAnswer(ret.inputs.ueba) =>
                StageValue("ueba_check") =
                    IF RequestRaises(master, ret.inputs.ueba)
                    THEN [alert |-> FALSE, score |-> 0, error |-> StrE]
                    ELSE [alert |-> FALSE, score |-> 0]
        /\ (HasStage("prediction") /\ NoAnswer(ret.inputs.ml)) =>
                StageValue("prediction") =
                    IF RequestRaises(master, ret.inputs.ml)
                    THEN [error |-> StrE]
                    ELSE EmptyDict

\* the scoring request timed out and the prediction service answered 500
C20_Witness ==
    /\ Processes
    /\ ~master.http_closed
    /\ ret.inputs.ueba.status = "timeout"
    /\ ret.inputs.ml.status = "500"
    /\ HasStage("prediction")
    /\ StageValue("prediction") = EmptyDict
    /\ "error" \in DOMAIN StageValue("ueba_check")

\* process_telemetry returned a summary
Summarised == ret.op = "process_telemetry" /\ ~ret.raised

\* C21: the status of a returned summary is "completed" or "failed", and in
\* a completed run requires_action is true exactly when the diagnosis stage
\* is among the stage results.
C21_FinalStatus ==
    Summarised =>
        /\ ret.run.status \in {"completed", "failed"}
        /\ ret.run.status = "completed" =>
                ret.run.requires_action = HasStage("diagnosis")

\* a completed run whose diagnosis found nothing to service: an action is
\* required although no engagement was made
C21_Witness ==
    /\ Summarised
    /\ ret.run.status = "completed"
    /\ HasStage("diagnosis")
    /\ ~HasStage("engagement")
    /\ ret.run.requires_action = TRUE

\* C22: every summary process_telemetry returns, of a completed or of a
\* failed run, has the keys stages, status and requires_action.
C22_SummaryShape ==
    Summarised => {"stages", "status", "requires_action"} \subseteq ret.run.keys

\* the task the run makes for a worker stage
StageTask(name) ==
    CASE name = "analysis"   -> AgentTask("WF-analysis", "analyze", 1,
                                          ret.inputs.telemetry.non_numeric)
      [] name = "diagnosis"  -> AgentTask("WF-diagnosis", "diagnose", 1, FALSE)
      [] name = "engagement" -> AgentTask("WF-engage", "engage", 2, FALSE)
      [] name = "scheduling" -> AgentTask("WF-schedule", "schedule", 2, FALSE)

\* the roster key of a worker stage
StageWorker(name) ==
    CASE name = "analysis"   -> "data_analysis"
      [] name = "diagnosis"  -> "diagnosis"
      [] name = "engagement" -> "customer_engagement"
      [] name = "scheduling" -> "scheduling"

\* the Result the worker of a stage gives for the stage's task
StageResult(name) ==
    execute_task(master.worker_agents[StageWorker(name)], StageTask(name),
                 ret.inputs.tp[name]).result

\* C23: a run in which an unexpected error is raised is "failed" with the
\* error recorded; the stages executed before the error are all in the
\* summary with the results they produced, and nothing was executed after.
C23_PartialResultsKept ==
    (Summarised /\ ret.run.status = "failed") =>
        /\ Populated(ret.run.error)
        /\ "error" \in ret.run.keys
        /\ ret.run.log = [i \in 1..Len(ret.run.stages) |-> ret.run.stages[i].name]
        /\ StageValue("ueba_check") = report_to_ueba(master, ret.inputs.ueba).value
        /\ HasStage("analysis") =>
                /\ StageValue("analysis").success = StageResult("analysis").success
                /\ StageValue("analysis").output =
                        OutputOf(StageResult("analysis"),
                                 [telemetry |-> ret.inputs.telemetry.readings])
        /\ HasStage("prediction") =>
                StageValue("prediction") = get_ml_prediction(master, ret.inputs.ml).value
        /\ \A i \in 1..Len(ret.dispatched) :
                \E n \in StageKeys :
                    HasStage(n) /\ ret.dispatched[i].task_id = StageTask(n).task_id

\* the roster ends after the analysis worker and a diagnosis is needed: the
\* run fails with its first three stages kept
C23_Witness ==
    /\ Summarised
    /\ ret.run.status = "failed"
    /\ Len(ret.run.stages) = 3
    /\ HasStage("analysis")
    /\ HasStage("prediction")
    /\ ret.run.log = <<"ueba_check", "analysis", "prediction">>

\* C24: a worker Result with success=false is recorded as such in its stage
\* and does not end the run: the run goes on and is "completed", and a run
\* is "failed" only when the roster lacks a worker it needs.
C24_WorkerFailureTolerated ==
    Summarised =>
        /\ \A n \in StageKeys :
                HasStage(n) => StageValue(n).success = StageResult(n).success
        /\ (HasStage("analysis") /\ ~StageValue("analysis").success) =>
                Entered("prediction")
        /\ ret.run.status = "failed" =>
                \E n \in StageKeys : ~CanDispatch(master, StageWorker(n))
        /\ (\A n \in StageKeys : CanDispatch(master, StageWorker(n))) =>
                ret.run.status = "completed"

\* the diagnosis worker's Result failed after a successful analysis, and
\* the run was completed
C24_Witness ==
    /\ Summarised
    /\ HasStage("diagnosis")
    /\ StageValue("analysis").success
    /\ ~StageValue("diagnosis").success
    /\ ret.run.status = "completed"

\* C25: process_telemetry returns a summary for every input, also for one
\* that is not a map and on a MasterAgent without a backend, and a run that
\* cannot proceed is "failed" with the error.
C25_NeverLosesRequest ==
    ret.op = "process_telemetry" =>
        /\ ~ret.raised
        /\ ret.run.status \in {"completed", "failed"}
        /\ ret.run.status = "failed" => Populated(ret.run.error)

\* C26: a task whose execution failed is executed again, with retry_count
\* one higher each time, until retry_count has reached max_retries, and
\* only then is the failed Result returned.
C26_RetriesHonored ==
    (Executes /\ ret.dispatched # <<>> /\ ~ret.results[1].success) =>
        /\ Len(ret.dispatched) = ret.tasks[1].max_retries + 1
        /\ ret.tasks_after[1].retry_count = ret.tasks[1].max_retries

\* C27: an execution that takes longer than the task's timeout_seconds is
\* abandoned, and the Result is failed with a timeout error.
C27_TimeoutAbandons ==
    (Executes /\ ret.tp = <<"slow">>) =>
        /\ ~ret.results[1].success
        /\ Mentions(ret.results[1].error, "timeout")

\* C28: execute_task and orchestrate_workflow leave every field of every
\* task they were given, except retry_count, as the caller passed it.
C28_TaskImmutable ==
    (Executes \/ Orchestrates) =>
        /\ Len(ret.tasks_after) = Len(ret.tasks)
        /\ \A i \in 1..Len(ret.tasks) :
                [ret.tasks_after[i] EXCEPT !.retry_count = 0]
                    = [ret.tasks[i] EXCEPT !.retry_count = 0]

\* C29: execute_task and orchestrate_workflow leave the registered workers
\* and their kinds as they were, whatever path the call takes.
C29_RegistryFrame ==
    [][ret'.op \in {"execute_task", "orchestrate_workflow"} => agents' = agents]_vars

\* a failed execution on a registered worker, which is still registered
C29_Witness ==
    /\ Executes
    /\ ret.dispatched # <<>>
    /\ ~ret.results[1].success
    /\ Has(agents, ret.agent_id)
    /\ Len(agents) = 2

IsPrefix(a, b) == Len(a) <= Len(b) /\ SubSeq(b, 1, Len(a)) = a

\* C30: however two runs of one MasterAgent for different subjects are
\* interleaved at their awaits, each run holds only stage results of its
\* own, and the summary it returns is the one the same call returns when
\* it runs alone with the same collaborator answers.
C30_RunsIndependent ==
    \A s \in Subjects :
        flight.runs[s].pc # "idle" =>
            \E alone \in {process_telemetry(master, flight.runs[s].inputs.telemetry,
                            flight.runs[s].inputs.ueba, flight.runs[s].inputs.ml,
                            flight.runs[s].inputs.tp)} :
                /\ flight.runs[s].pc # "done" =>
                    /\ IsPrefix(flight.runs[s].acc.stages, alone.stages)
                    /\ IsPrefix(flight.runs[s].acc.dispatched, alone.dispatched)
                /\ flight.runs[s].pc = "done" => flight.runs[s].summary = alone

\* the workers served V1, then V2, then V1 again; V1's run arranged a
\* service and V2's run found nothing to do
C30_Witness ==
    /\ \A s \in Subjects : flight.runs[s].pc = "done"
    /\ Len(flight.history) >= 3
    /\ flight.history[1].subject = "V1"
    /\ flight.history[2].subject = "V2"
    /\ flight.history[3].subject = "V1"
    /\ flight.runs["V1"].summary.requires_action = TRUE
    /\ flight.runs["V2"].summary.requires_action = FALSE

\* every worker of the roster is recorded by the MasterAgent and registered
\* in its adapter
RosterRegistered ==
    /\ master.adapter
    /\ \A i \in 1..Len(worker_configs) :
            /\ worker_configs[i].agent_type \in DOMAIN master.worker_agents
            /\ Has(agents, master.worker_agents[worker_configs[i].agent_type])

\* engine_temp 118.5, oil_pressure 26.2, battery_voltage 10.5,
\* brake_pad_wear_avg 0.08, in hundredths
AllOutOfRange(readings) ==
    /\ Get(readings, "engine_temp", 0) = 11850
    /\ Get(readings, "oil_pressure", 0) = 2620
    /\ Get(readings, "battery_voltage", 0) = 1050
    /\ Get(readings, "brake_pad_wear_avg", 0) = 8

\* C31: with the builtin adapter and its workers registered, the telemetry
\* whose four readings are all out of range gives a completed run whose
\* analysis says "needs_attention", whose diagnosis has severity high or
\* critical, and whose engagement and scheduling stages carry a non-empty
\* engagement_id and appointment_id, whatever the collaborators answer.
C31_EndToEnd ==
    (Processes /\ framework = "builtin" /\ RosterRegistered
        /\ AllOutOfRange(ret.inputs.telemetry.readings)) =>
        /\ ret.run.status = "completed"
        /\ HasStage("analysis")
        /\ Get(StageValue("analysis").output, "overall_status", None) = "needs_attention"
        /\ HasStage("diagnosis")
        /\ Get(StageValue("diagnosis").output, "severity", None) \in {"high", "critical"}
        /\ HasStage("engagement")
        /\ Get(StageValue("engagement").output, "engagement_id", "") # ""
        /\ HasStage("scheduling")
        /\ Get(StageValue("scheduling").output, "appointment_id", "") # ""

\* the scenario with both collaborators out of reach
C31_Witness ==
    /\ Processes /\ framework = "builtin" /\ RosterRegistered
    /\ AllOutOfRange(ret.inputs.telemetry.readings)
    /\ ret.inputs.ueba.status = "unreachable"
    /\ ret.inputs.ml.status = "timeout"
    /\ HasStage("scheduling")
    /\ StageValue("scheduling").success

\* the fallback path ran: _fallback_execute produced the Result
FellBack == \E i \in 1..Len(ret.dispatched) : ret.dispatched[i].via = "fallback"

\* C32: the Result of execute_task of every adapter has metadata.framework
\* naming the adapter that produced it, with the suffix "_fallback" exactly
\* when the fallback path produced it.
C32_FrameworkRecorded ==
    Executes =>
        ret.results[1].metadata =
            IF FellBack THEN framework \o "_fallback" ELSE framework

\* the positions of the batch in the order they are dispatched
DispatchOrder == sorted(ret.tasks, Len(ret.tasks))

\* the chained entries of the input_data of the k-th dispatched task at the
\* moment it is dispatched: what the k-1 iterations before it have written
SeenAtDispatch(k) ==
    Builtin_loop(Loop0(ret.tasks), SubSeq(DispatchOrder, 1, k - 1),
                 ret.config).tasks[DispatchOrder[k]].input_data.chained

\* the entry the j-th dispatched task's output is chained as
ChainedEntry(j) ==
    [key |-> ret.tasks[DispatchOrder[j]].task_type \o "_result",
     value |-> ret.results[j].output]

\* the j-th dispatched task succeeded and no task of its kind succeeded
\* between it and the k-th
LatestOfKindBefore(j, k) ==
    /\ j < k
    /\ ret.results[j].success
    /\ \A h \in (j + 1)..(k - 1) :
            ret.results[h].success =>
                ret.tasks[DispatchOrder[h]].task_type
                    # ret.tasks[DispatchOrder[j]].task_type

\* no task holds an output of its own, and without chaining no input changed
NoOwnResult ==
    /\ \A i \in 1..Len(ret.tasks_after) :
            \A e \in ret.tasks_after[i].input_data.chained :
                e.value.of # ret.tasks_after[i].task_id
    /\ ~ret.config.chain_outputs => ret.tasks_after = ret.tasks

\* C33 as stated: in the builtin orchestrate_workflow a task sees at its
\* dispatch, under "<kind>_result", the output of every task that succeeded
\* before it, and of no failed task; no task receives its own result; with
\* chain_outputs false no input is modified.
C33_ChainsEveryOutput ==
    (Orchestrates /\ framework = "builtin") =>
        /\ \A k \in 1..Len(ret.results) :
                SeenAtDispatch(k) =
                    IF ret.config.chain_outputs
                    THEN {ChainedEntry(j) : j \in {h \in 1..(k - 1) :
                                                    ret.results[h].success}}
                    ELSE {}
        /\ NoOwnResult

\* C33: in the builtin orchestrate_workflow a task sees at its dispatch,
\* under "<kind>_result", the output of the latest task of each kind that
\* succeeded before it (a later success of the same kind replaces an earlier
\* one), and of no failed task; no task receives its own result; with
\* chain_outputs false no input is modified.
C33_ChainsLatestOfKind ==
    (Orchestrates /\ framework = "builtin") =>
        /\ \A k \in 1..Len(ret.results) :
                SeenAtDispatch(k) =
                    IF ret.config.chain_outputs
                    THEN {ChainedEntry(j) : j \in {h \in 1..(k - 1) :
                                                    LatestOfKindBefore(h, k)}}
                    ELSE {}
        /\ NoOwnResult

\* three tasks, the first two dispatched of one kind and both successful, a
\* failed one of another priority aside: the third sees the second's output
\* and not the first's
C33_Witness ==
    /\ Orchestrates /\ framework = "builtin"
    /\ ret.config.chain_outputs
    /\ Len(ret.results) = 3
    /\ ret.results[1].success /\ ret.results[2].success
    /\ ret.tasks[DispatchOrder[1]].task_type = ret.tasks[DispatchOrder[2]].task_type
    /\ DispatchOrder # <<1, 2, 3>>
    /\ ChainedEntry(2) \in SeenAtDispatch(3)
    /\ ChainedEntry(1) \notin SeenAtDispatch(3)

\* the names of the stage results a run holds, in order
StageNames(run) == [i \in 1..Len(Held(run).stages) |-> Held(run).stages[i].name]

\* the stages that are dispatched between the prediction's answer and the
\* second behavior check
AfterPrediction == {"diagnosis", "engagement", "scheduling"}

\* C34: a run is suspended only at its three collaborator calls: while it
\* waits, its results are those of before the first behavior check, of
\* before the prediction, or of after the scheduling; it never waits with a
\* prediction and no diagnosis, or with a diagnosis and a service workflow
\* still to dispatch.  In the workers' history the diagnosis, engagement and
\* scheduling of one run are not separated by a step of another run.
C34_SuspensionPoints ==
    /\ \A s \in Subjects :
            /\ flight.runs[s].pc \in {"idle", "ueba_check", "prediction",
                                       "ueba_report", "done"}
            /\ flight.runs[s].pc = "ueba_check" => StageNames(flight.runs[s]) = <<>>
            /\ flight.runs[s].pc = "prediction" =>
                    StageNames(flight.runs[s]) = <<"ueba_check", "analysis">>
            /\ flight.runs[s].pc = "ueba_report" =>
                    StageNames(flight.runs[s]) =
                        <<"ueba_check", "analysis", "prediction", "diagnosis",
                          "engagement", "scheduling">>
    /\ \A i, j \in 1..Len(flight.history) :
            (/\ i < j
             /\ flight.history[i].subject = flight.history[j].subject
             /\ flight.history[i].stage \in AfterPrediction
             /\ flight.history[j].stage \in AfterPrediction) =>
                \A k \in i..j : flight.history[k].subject = flight.history[i].subject

\* the run of V2 went on between the analysis and the diagnosis of V1, and
\* waits for its prediction while V1 waits for the second behavior check
C34_Witness ==
    /\ flight.runs["V1"].pc = "ueba_report"
    /\ flight.runs["V2"].pc = "prediction"
    /\ Len(flight.history) = 5
    /\ [i \in 1..5 |-> flight.history[i].subject] = <<"V1", "V2", "V1", "V1", "V1">>
    /\ [i \in 1..5 |-> flight.history[i].stage] =
            <<"analysis", "analysis", "diagnosis", "engagement", "scheduling">>

\* the MasterAgent has an adapter and a worker recorded for every kind
RosterRecorded ==
    /\ master.adapter
    /\ \A i \in 1..Len(worker_configs) :
            worker_configs[i].agent_type \in DOMAIN master.worker_agents

\* C35: while every awaited collaborator call comes back (with an answer,
\* an error or a timeout), every run that was started returns a summary
\* whose status is "completed" or "failed"; and with a worker recorded for
\* every kind it ends "completed", also when its collaborator calls timed
\* out.
C35_RunsTerminate ==
    \A s \in Subjects :
        /\ (flight.runs[s].pc # "idle") ~>
                (/\ flight.runs[s].pc = "done"
                 /\ flight.runs[s].summary.status \in {"completed", "failed"})
        /\ (flight.runs[s].pc # "idle" /\ RosterRecorded) ~>
                (/\ flight.runs[s].pc = "done"
                 /\ flight.runs[s].summary.status = "completed")

\* a run whose three collaborator calls all timed out and which still went
\* through the service workflow to "completed"
C35_Witness ==
    /\ flight.runs["V1"].pc = "done"
    /\ flight.runs["V1"].inputs.ueba.status = "timeout"
    /\ flight.runs["V1"].inputs.ml.status = "timeout"
    /\ flight.runs["V1"].summary.status = "completed"
    /\ "scheduling" \in {flight.runs["V1"].summary.stages[i].name :
                            i \in 1..Len(flight.runs["V1"].summary.stages)}

\* the stage results in the order the run produces them
StageChain ==
    <<"ueba_check", "analysis", "prediction", "diagnosis", "engagement", "scheduling">>

\* each stage of the set has the stage before it in the set too
PrefixClosed(names) ==
    \A i \in 2..Len(StageChain) : StageChain[i] \in names => StageChain[i - 1] \in names

\* C36: the stage results of a run are prefix-closed, in the summary it
\* returns (completed or failed) and at every point on the way, the stages
\* being entered one after another: scheduling implies engagement,
\* engagement diagnosis, diagnosis prediction, prediction analysis and
\* analysis the first behavior check.
C36_StagesPrefixClosed ==
    Summarised =>
        \A n \in 0..Len(ret.run.stages) :
            PrefixClosed({ret.run.stages[i].name : i \in 1..n})

\* a run that failed for want of a diagnosis worker: its summary stops at
\* the prediction, after an analysis whose Result had failed
C36_Witness ==
    /\ Summarised
    /\ ret.run.status = "failed"
    /\ HasStage("prediction")
    /\ ~HasStage("diagnosis")
    /\ ~StageValue("analysis").success

\* the analysis stage's output says "needs_attention"
NeedsAttention ==
    /\ HasStage("analysis")
    /\ Get(StageValue("analysis").output, "overall_status", None) = "needs_attention"

\* at least one health indicator of the analysis output is "warning"
SomeWarning ==
    /\ HasStage("analysis")
    /\ \E k \in DOMAIN Get(StageValue("analysis").output, "health_indicators", EmptyDict) :
            StageValue("analysis").output.health_indicators[k] = "warning"

\* C37: in a completed run on the builtin adapter the engagement and the
\* scheduling stages are present exactly when the analysis output says
\* "needs_attention", which is exactly when one of its indicators is
\* "warning"; a diagnosis entered on failure_probability > 0.3 alone has
\* severity "low" and no service workflow follows it, while requires_action
\* is true.
C37_ServiceIffNeedsAttention ==
    (Processes /\ framework = "builtin" /\ ret.run.status = "completed") =>
        /\ NeedsAttention <=> SomeWarning
        /\ HasStage("engagement") <=> NeedsAttention
        /\ HasStage("scheduling") <=> NeedsAttention
        /\ (HasStage("diagnosis") /\ ~NeedsAttention) =>
                /\ Get(StageValue("prediction"), "failure_probability", 0) > 30
                /\ Get(StageValue("diagnosis").output, "severity", None) = "low"
                /\ ~Entered("engagement") /\ ~Entered("scheduling")
                /\ ret.run.requires_action = TRUE

\* healthy readings with failure_probability 0.5: a diagnosis of severity
\* "low", no service, an action required
C37_Witness ==
    /\ Processes /\ framework = "builtin" /\ ret.run.status = "completed"
    /\ HasStage("analysis") /\ StageValue("analysis").success
    /\ ~NeedsAttention
    /\ HasStage("diagnosis")
    /\ Get(StageValue("diagnosis").output, "severity", None) = "low"
    /\ ~HasStage("engagement")
    /\ ret.run.requires_action = TRUE

\* C38: after MasterAgent.initialize() returned True the roster maps each
\* of the six kinds to a worker id that is registered in the adapter, for
\* every adapter, also when a create_agent call failed inside.
C38_RosterAfterInitialize ==
    (ret.op = "master_initialize" /\ ret.returned = "True") => RosterRegistered

\* C39: a score_action call triggers a retraining only when at least 100
\* actions were recorded since the last training, also when the history
\* deque is full.
C39_RetrainPeriodic == ueba.retrained => ueba.gap >= retrain_every

\* the slots that are BOOKED, and the appointments that are not cancelled
BookedSlots == {k \in TimeSlots : scheduling.time_slots[k] = "booked"}

HeldAppointments ==
    {i \in DOMAIN scheduling.appointments :
        scheduling.appointments[i].status # "cancelled"}

\* C40: a slot is BOOKED only while an appointment that is not cancelled
\* holds it, and there are as many BOOKED slots as such appointments.
C40_BookedWhileHeld ==
    /\ \A k \in BookedSlots :
            \E i \in HeldAppointments : scheduling.appointments[i].slot = k
    /\ Cardinality(BookedSlots) = Cardinality(HeldAppointments)

====
